---- MODULE Spec2Model ----
(***************************************************************************)
(* A model of utkarsh5026/justdoit: the insertion-ordered dictionary       *)
(* (app/ordereddict), the KVLM codec (app/cmd/objects/kvlm.go), the object *)
(* store (app/cmd/objects/object.go), commits and signatures               *)
(* (app/cmd/objects/commit.go), trees and tags (app/cmd/objects/tree.go)   *)
(* and references (app/cmd/repository/ref.go).                             *)
(*                                                                         *)
(* Conventions.  A Go []byte or string is a sequence of one-character      *)
(* strings.  Go indices are 0-based: At, Slice and IndexByte below take    *)
(* and return 0-based offsets exactly as the Go code does.  A Go           *)
(* interface{} value is a record tagged by its dynamic type.               *)
(***************************************************************************)
EXTENDS Integers, Sequences, FiniteSets, TLC

VARIABLES
    \* ---- OrderedDict under test (SpecDict)
    od,        \* the OrderedDict: [dict |-> key -> value, keys |-> sequence]
    last,      \* the last call made on od, with its arguments and result
    born,      \* observer: key -> number of the call that newly inserted it
    hist,      \* observer: key -> values given to Set since that insertion
    nops,      \* number of calls made so far
    \* ---- KVLM codec (SpecKvlm)
    kvlm,      \* the OrderedDict handed to KvlmSerialize (or Nil)
    ser,       \* what KvlmSerialize returned: [bytes, err]
    raw,       \* the buffer handed to KvlmParse
    start0,    \* the offset of the outermost KvlmParse call
    start,     \* the offset of the current (recursive) KvlmParse call
    dict,      \* the OrderedDict KvlmParse fills
    spc,       \* KvlmParse's local spc of the current call
    end,       \* KvlmParse's local end of the current call
    pc,        \* where the codec is
    log,       \* observer: the <<key, value>> pairs KvlmParse stored so far
    \* ---- object store (SpecStore)
    fs,        \* the repository's git directory: [dirs, files]
    wr,        \* observer: the WriteObject calls made, with what they returned
    nwrites,   \* number of WriteObject calls made so far
    rd,        \* observer: the last ReadObject call, with what it returned
    \* ---- decoders taken alone (SpecCommit, SpecSignature, SpecTree)
    arg,       \* the argument of the call
    res        \* what the call returned

dictVars  == <<od, last, born, hist, nops>>
kvlmVars  == <<kvlm, ser, raw, start0, start, dict, spc, end, pc, log>>
storeVars == <<fs, wr, nwrites, rd>>
fnVars    == <<arg, res>>
vars == <<dictVars, kvlmVars, storeVars, fnVars>>

-----------------------------------------------------------------------------
(* Bytes and Go's slice primitives *)

NewLine == "\n"
Space   == " "
CR      == "\r"
NUL     == "NUL"

Nil == "nil"

\* a nil *OrderedDict
NilDict == [nil |-> TRUE]

\* s[i] of Go (0-based)
At(s, i) == s[i + 1]

\* s[lo:hi] of Go (0-based, hi exclusive); the caller checks lo <= hi <= len
Slice(s, lo, hi) == SubSeq(s, lo + 1, hi)

\* s[lo:] of Go
SliceFrom(s, lo) == SubSeq(s, lo + 1, Len(s))

\* bytes.IndexByte: the 0-based index of the first c in s, or -1
IndexByte(s, c) ==
    IF \E i \in 1..Len(s) : s[i] = c
    THEN (CHOOSE i \in 1..Len(s) : s[i] = c /\ \A j \in 1..(i - 1) : s[j] # c) - 1
    ELSE -1

RECURSIVE Concat(_)
\* the concatenation of a sequence of byte strings
Concat(ss) == IF ss = <<>> THEN <<>> ELSE Head(ss) \o Concat(Tail(ss))

\* every byte string over alphabet of length at most n
SeqsUpTo(alphabet, n) == UNION {[1..k -> alphabet] : k \in 0..n}

\* interface{} values
BytesVal(b)  == [t |-> "bytes", v |-> b]
ListVal(l)   == [t |-> "list", v |-> l]
IntVal(n)    == [t |-> "int", v |-> n]
NilVal       == [t |-> "nil"]

-----------------------------------------------------------------------------
(* app/ordereddict/dict.go *)

\* New()
New == [dict |-> [k \in {} |-> NilVal], keys |-> <<>>]

Has(o, key) == key \in DOMAIN o.dict

\* a plausible slip: Set accumulates the values of a repeated key
SetAccumulating(o, key, value) ==
    IF ~Has(o, key)
    THEN [dict |-> [k \in DOMAIN o.dict \cup {key} |->
                      IF k = key THEN value ELSE o.dict[k]],
          keys |-> Append(o.keys, key)]
    ELSE [o EXCEPT !.dict[key] =
            IF @.t = "list" THEN ListVal(Append(@.v, value.v))
            ELSE ListVal(<<@.v, value.v>>)]

\* a plausible slip: Set moves a key that is set again to the end
SetMovingToEnd(o, key, value) ==
    [dict |-> [k \in DOMAIN o.dict \cup {key} |->
                 IF k = key THEN value ELSE o.dict[k]],
     keys |-> Append(SelectSeq(o.keys, LAMBDA k : k # key), key)]

\* (od *OrderedDict) Set(key, value)
Set(o, key, value) ==
    [dict |-> [k \in DOMAIN o.dict \cup {key} |->
                 IF k = key THEN value ELSE o.dict[k]],
     keys |-> IF ~Has(o, key) THEN Append(o.keys, key) ELSE o.keys]

\* (od *OrderedDict) Get(key): <<value, exists>>
Get(o, key) ==
    IF Has(o, key) THEN <<o.dict[key], TRUE>> ELSE <<NilVal, FALSE>>

\* the loop of Delete: drop the first occurrence of key from keys
RemoveFirst(keys, key) ==
    LET i == CHOOSE i \in 1..Len(keys) :
                 keys[i] = key /\ \A j \in 1..(i - 1) : keys[j] # key
    IN  SubSeq(keys, 1, i - 1) \o SubSeq(keys, i + 1, Len(keys))

\* a plausible slip: Delete forgets the key order
DeleteKeepingOrderRecord(o, key) ==
    IF Has(o, key)
    THEN [dict |-> [k \in DOMAIN o.dict \ {key} |-> o.dict[k]], keys |-> o.keys]
    ELSE o

\* (od *OrderedDict) Delete(key)
Delete(o, key) ==
    IF Has(o, key)
    THEN [dict |-> [k \in DOMAIN o.dict \ {key} |-> o.dict[k]],
          keys |-> RemoveFirst(o.keys, key)]
    ELSE o

\* (od *OrderedDict) Keys()
Keys(o) == o.keys

\* (od *OrderedDict) Len()
Length(o) == Len(o.keys)

RECURSIVE RangeFrom(_, _, _, _)
\* the loop of Range from index i (1-based), the callback returning false on
\* its stopAt-th call; the result is the sequence of <<key, value>> it was given
RangeFrom(o, i, stopAt, seen) ==
    IF i > Len(o.keys) THEN seen
    ELSE LET seen2 == Append(seen, <<o.keys[i], o.dict[o.keys[i]]>>)
         IN  IF Len(seen2) = stopAt THEN seen2
             ELSE RangeFrom(o, i + 1, stopAt, seen2)

\* (od *OrderedDict) Range(f)
Range(o, stopAt) == RangeFrom(o, 1, stopAt, <<>>)

-----------------------------------------------------------------------------
(* app/cmd/objects/kvlm.go: KvlmSerialize *)

\* bufio's dropCR: a line without its trailing carriage return
DropCR(line) ==
    IF Len(line) > 0 /\ line[Len(line)] = CR
    THEN SubSeq(line, 1, Len(line) - 1) ELSE line

RECURSIVE ScanLines(_)
\* the tokens of bufio.NewScanner(bytes.NewReader(value)): the lines of value,
\* each ended by a newline or by the end of value, without their line ends; no
\* token for the empty remainder after a final newline
ScanLines(value) ==
    IF value = <<>> THEN <<>>
    ELSE LET i == IndexByte(value, NewLine)
         IN  IF i >= 0
             THEN <<DropCR(Slice(value, 0, i))>> \o ScanLines(SliceFrom(value, i + 1))
             ELSE <<DropCR(value)>>

RECURSIVE WriteLines(_, _, _)
\* the scanner loop of writeKeyValue over the tokens not yet written
WriteLines(buffer, lines, firstLine) ==
    IF lines = <<>> THEN buffer
    ELSE WriteLines((IF firstLine THEN buffer ELSE buffer \o <<NewLine, Space>>)
                        \o Head(lines),
                    Tail(lines), FALSE)

\* writeKeyValue(buffer, key, value): the buffer afterwards (no write fails)
writeKeyValue(buffer, key, value) ==
    WriteLines(buffer \o key \o <<Space>>, ScanLines(value), TRUE) \o <<NewLine>>

RECURSIVE WriteValues(_, _, _)
\* case [][]byte of KvlmSerialize: one writeKeyValue per element
WriteValues(buffer, key, values) ==
    IF values = <<>> THEN buffer
    ELSE WriteValues(writeKeyValue(buffer, key, Head(values)), key, Tail(values))

\* the callback KvlmSerialize hands to Range, on the state [ret, errs]
SerializeField(st, k, v) ==
    IF k = <<>> THEN st
    ELSE IF v.t = "bytes" THEN [st EXCEPT !.ret = writeKeyValue(@, k, v.v)]
    ELSE IF v.t = "list" THEN [st EXCEPT !.ret = WriteValues(@, k, v.v)]
    ELSE [st EXCEPT !.errs = Append(@, <<"unsupported type for key", k>>)]

RECURSIVE SerializeFields(_, _)
\* kvlm.Range(callback): the callback applied to the entries in Range's order
SerializeFields(st, entries) ==
    IF entries = <<>> THEN st
    ELSE SerializeFields(SerializeField(st, Head(entries)[1], Head(entries)[2]),
                         Tail(entries))

\* "Append message" of KvlmSerialize
SerializeMessage(st, m) ==
    IF ~Get(m, <<>>)[2] THEN st
    ELSE IF Get(m, <<>>)[1].t = "bytes"
         THEN [st EXCEPT !.ret = @ \o <<NewLine>> \o Get(m, <<>>)[1].v \o <<NewLine>>]
         ELSE [st EXCEPT !.errs = Append(@, <<"invalid message type">>)]

\* a plausible slip: the bytes written so far are returned with the error
SerializeResultPartial(st) == [called |-> TRUE, bytes |-> st.ret, err |-> st.errs]

\* the return statements of KvlmSerialize; a nil []byte has no bytes
SerializeResult(st) ==
    IF Len(st.errs) > 0
    THEN [called |-> TRUE, bytes |-> <<>>, err |-> st.errs]
    ELSE [called |-> TRUE, bytes |-> st.ret, err |-> <<>>]

\* KvlmSerialize(kvlm): [bytes, err]
KvlmSerialize(m) ==
    IF m = NilDict
    THEN [called |-> TRUE, bytes |-> <<>>, err |-> << <<"input OrderedDict is nil">> >>]
    ELSE SerializeResult(
             SerializeMessage(
                 SerializeFields([ret |-> <<>>, errs |-> <<>>], Range(m, 0)), m))

NotSerialized == [called |-> FALSE, bytes |-> <<>>, err |-> <<>>]

-----------------------------------------------------------------------------
(* app/cmd/objects/kvlm.go: KvlmParse *)

RECURSIVE Replace(_)
\* bytes.Replace(s, "\n ", "\n", -1)
Replace(s) ==
    IF Len(s) < 2 THEN s
    ELSE IF s[1] = NewLine /\ s[2] = Space
         THEN <<NewLine>> \o Replace(SubSeq(s, 3, Len(s)))
         ELSE <<s[1]>> \o Replace(Tail(s))

\* "Don't overwrite existing data contents": the dict after storing value
\* under key, or Nil where the type assertion v.([]byte) panics
Accumulate(d, key, value) ==
    IF Get(d, key)[2]
    THEN LET v == Get(d, key)[1]
         IN  IF v.t = "list" THEN Set(d, key, ListVal(Append(v.v, value)))
             ELSE IF v.t = "bytes" THEN Set(d, key, ListVal(<<v.v, value>>))
             ELSE NilDict
    ELSE Set(d, key, BytesVal(value))

-----------------------------------------------------------------------------
(* SpecDict: any sequence of calls on one OrderedDict *)

MaxOps == 4

DictKeys == {<<>>, <<"a">>, <<"b">>}
DictValues == {BytesVal(<<"x">>), BytesVal(<<"y">>),
               ListVal(<<<<"x">>, <<"y">>>>), IntVal(123)}

KvlmIdle ==
    /\ kvlm = NilDict /\ ser = NotSerialized /\ raw = <<>> /\ start0 = 0
    /\ start = 0 /\ dict = NilDict /\ spc = 0 /\ end = 0 /\ pc = "idle"
    /\ log = <<>>

NotRead == [called |-> FALSE]

StoreIdle == fs = Nil /\ wr = <<>> /\ nwrites = 0 /\ rd = NotRead

FnIdle == arg = Nil /\ res = Nil

DictIdle ==
    /\ od = New /\ last = [op |-> "New"] /\ nops = 0
    /\ born = [k \in {} |-> 0] /\ hist = [k \in {} |-> <<>>]

InitDict == DictIdle /\ KvlmIdle /\ StoreIdle /\ FnIdle

SetOp(key, value) ==
    /\ nops < MaxOps
    /\ od' = Set(od, key, value)
    /\ last' = [op |-> "Set", key |-> key, value |-> value, before |-> od]
    /\ nops' = nops + 1
    /\ born' = IF Has(od, key) THEN born
               ELSE [k \in DOMAIN born \cup {key} |->
                       IF k = key THEN nops + 1 ELSE born[k]]
    /\ hist' = [k \in DOMAIN hist \cup {key} |->
                  IF k # key THEN hist[k]
                  ELSE IF Has(od, key) THEN Append(hist[k], value)
                  ELSE <<value>>]
    /\ UNCHANGED <<kvlmVars, storeVars, fnVars>>

GetOp(key) ==
    /\ nops < MaxOps
    /\ last' = [op |-> "Get", key |-> key, result |-> Get(od, key), before |-> od]
    /\ nops' = nops + 1
    /\ UNCHANGED <<od, born, hist>>
    /\ UNCHANGED <<kvlmVars, storeVars, fnVars>>

DeleteOp(key) ==
    /\ nops < MaxOps
    /\ od' = Delete(od, key)
    /\ last' = [op |-> "Delete", key |-> key, before |-> od]
    /\ nops' = nops + 1
    /\ born' = [k \in DOMAIN born \ {key} |-> born[k]]
    /\ hist' = [k \in DOMAIN hist \ {key} |-> hist[k]]
    /\ UNCHANGED <<kvlmVars, storeVars, fnVars>>

RangeOp(stopAt) ==
    /\ nops < MaxOps
    /\ last' = [op |-> "Range", stopAt |-> stopAt,
                visited |-> Range(od, stopAt), before |-> od]
    /\ nops' = nops + 1
    /\ UNCHANGED <<od, born, hist>>
    /\ UNCHANGED <<kvlmVars, storeVars, fnVars>>

NextDict ==
    \/ \E key \in DictKeys, value \in DictValues : SetOp(key, value)
    \/ \E key \in DictKeys : GetOp(key)
    \/ \E key \in DictKeys : DeleteOp(key)
    \/ \E stopAt \in 1..(Cardinality(DictKeys) + 1) : RangeOp(stopAt)

SpecDict == InitDict /\ [][NextDict]_vars

-----------------------------------------------------------------------------
(* SpecKvlm: KvlmSerialize of a dictionary followed by KvlmParse of its     *)
(* bytes, and KvlmParse of any buffer from any offset.  KvlmParse runs one  *)
(* step at a time: its entry, each turn of its scan loop, and the storing   *)
(* of the value with the recursive call.                                    *)

MaxRaw   == 6
MaxLines == 3
MaxKeys  == 2
MaxVal   == 2
MaxList  == 2

ParseBytes == {"a", Space, NewLine}

\* lines that longer inputs are put together from
Pieces == { <<"a", Space, NewLine>>, <<"a", Space, "a", NewLine>>,
            <<"a", "a", Space, "a", NewLine>>,
            <<"a", Space, "a", Space, "a", NewLine>>,
            <<"b", Space, "a", NewLine>>, <<Space, "a", NewLine>>,
            <<NewLine>>, <<"a">> }

RawInputs ==
    SeqsUpTo(ParseBytes, MaxRaw) \cup {Concat(ps) : ps \in SeqsUpTo(Pieces, MaxLines)}

SerKeys  == {<<>>, <<"a">>, <<"b">>}
SerBytes == {"a", NewLine, CR}
SerElems == {<<"a">>, <<NewLine, "a">>}
SerValues ==
    {BytesVal(b) : b \in SeqsUpTo(SerBytes, MaxVal)}
        \cup {ListVal(l) : l \in SeqsUpTo(SerElems, MaxList)}
        \cup {IntVal(123)}

\* the values given to dictionaries of several keys
SerShort ==
    {BytesVal(b) : b \in SeqsUpTo(SerBytes, 1)}
        \cup {ListVal(l) : l \in SeqsUpTo(SerElems, 1)}
        \cup {IntVal(123)}

\* the dictionaries that Set calls with distinct keys build from the values vs
MapsOver(kss, vs) ==
    UNION { {[dict |-> f, keys |-> ks] : f \in [{ks[i] : i \in 1..Len(ks)} -> vs]} :
            ks \in kss }

\* one key with any value, and up to MaxKeys keys with the short values
SerMaps ==
    MapsOver({<<k>> : k \in SerKeys}, SerValues)
        \cup MapsOver({q \in SeqsUpTo(SerKeys, MaxKeys) :
                          \A i, j \in 1..Len(q) : i # j => q[i] # q[j]}, SerShort)

InitKvlm ==
    /\ DictIdle /\ StoreIdle /\ FnIdle
    /\ dict = NilDict /\ spc = 0 /\ end = 0 /\ log = <<>> /\ ser = NotSerialized
    /\ \/ /\ pc = "serialize"
          /\ kvlm \in SerMaps \cup {NilDict}
          /\ raw = <<>> /\ start0 = 0 /\ start = 0
       \/ /\ pc = "entry"
          /\ kvlm = NilDict
          /\ raw \in RawInputs
          /\ start0 \in 0..Len(raw)
          /\ start = start0

\* KvlmSerialize(kvlm), and on success the call KvlmParse(bytes, 0, nil)
SerializeStep ==
    /\ pc = "serialize"
    /\ ser' = KvlmSerialize(kvlm)
    /\ IF ser'.err = <<>>
       THEN raw' = ser'.bytes /\ pc' = "entry"
       ELSE raw' = raw /\ pc' = "failed"
    /\ UNCHANGED <<kvlm, start0, start, dict, spc, end, log>>
    /\ UNCHANGED <<dictVars, storeVars, fnVars>>

\* KvlmParse from its first line to the key of the recursive case
ParseEntry ==
    /\ pc = "entry"
    /\ LET d == IF dict = NilDict THEN New ELSE dict
       IN  IF start >= Len(raw)
           THEN dict' = d /\ pc' = "done" /\ UNCHANGED <<spc, end>>
           ELSE LET s  == IndexByte(SliceFrom(raw, start), Space)
                    nl == IndexByte(SliceFrom(raw, start), NewLine)
                IN  IF s < 0 \/ (nl >= 0 /\ nl < s)
                    THEN /\ dict' = IF nl # start THEN d
                                    ELSE Set(d, <<>>, BytesVal(SliceFrom(raw, start + 1)))
                         /\ pc' = "done"
                         /\ UNCHANGED <<spc, end>>
                    ELSE /\ dict' = d
                         /\ spc' = s
                         /\ end' = start
                         /\ pc' = "scan"
    /\ UNCHANGED <<kvlm, ser, raw, start0, start, log>>
    /\ UNCHANGED <<dictVars, storeVars, fnVars>>

\* one turn of the loop "Find the end of the value"
ScanStep ==
    /\ pc = "scan"
    /\ IF end + 1 > Len(raw)
       THEN pc' = "panic" /\ end' = end
       ELSE LET e == IndexByte(SliceFrom(raw, end + 1), NewLine)
            IN  IF e < 0 \/ Len(raw) <= e + 2 \/ At(raw, e + 2) # Space
                THEN end' = e /\ pc' = "store"
                ELSE end' = e + 1 /\ pc' = "scan"
    /\ UNCHANGED <<kvlm, ser, raw, start0, start, dict, spc, log>>
    /\ UNCHANGED <<dictVars, storeVars, fnVars>>

\* the absolute end of the value, as computed after the loop
ValueEnd == IF end < 0 THEN Len(raw) ELSE end + start + 1

\* what raw[:hi] can hold: raw itself, or, when hi lies past len(raw) but
\* within its capacity, raw followed by whatever bytes the backing array holds
Backing(hi) ==
    IF hi <= Len(raw) THEN {raw}
    ELSE {raw \o x : x \in [1..(hi - Len(raw)) -> ParseBytes]}

\* the value is cut out, stored under the key, and KvlmParse calls itself
StoreStep ==
    /\ pc = "store"
    /\ start + spc + 1 <= ValueEnd
    /\ \E buf \in Backing(ValueEnd) :
          LET key   == Slice(raw, start, start + spc)
              value == Replace(Slice(buf, start + spc + 1, ValueEnd))
              d     == Accumulate(dict, key, value)
          IN  IF d = NilDict
              THEN pc' = "panic" /\ UNCHANGED <<dict, log, start>>
              ELSE /\ dict' = d
                   /\ log' = Append(log, <<key, value>>)
                   /\ start' = ValueEnd + 1
                   /\ pc' = "entry"
    /\ UNCHANGED <<kvlm, ser, raw, start0, spc, end>>
    /\ UNCHANGED <<dictVars, storeVars, fnVars>>

\* raw[start+spc+1:end] with the bounds out of range: the run-time panic
StorePanic ==
    /\ pc = "store"
    /\ start + spc + 1 > ValueEnd \/ ValueEnd > Len(raw)
    /\ pc' = "panic"
    /\ UNCHANGED <<kvlm, ser, raw, start0, start, dict, spc, end, log>>
    /\ UNCHANGED <<dictVars, storeVars, fnVars>>

NextKvlm == SerializeStep \/ ParseEntry \/ ScanStep \/ StoreStep \/ StorePanic

SpecKvlm == InitKvlm /\ [][NextKvlm]_vars

-----------------------------------------------------------------------------
(* app/cmd/objects/object.go: the object store.  A path is a sequence of    *)
(* components, a component a sequence of characters.  The file system is    *)
(* [dirs |-> the directories, files |-> path -> content].  crypto/sha1 is   *)
(* represented by a digest of two bytes, hex-encoded as the code does,      *)
(* and compress/zlib by a stream that starts with a zlib marker.            *)

BlobType   == 0
CommitType == 1
TreeType   == 2
TagType    == 3

\* GitObjectType.String
String(got) ==
    CASE got = BlobType   -> <<"b", "l", "o", "b">>
      [] got = CommitType -> <<"c", "o", "m", "m", "i", "t">>
      [] got = TreeType   -> <<"t", "r", "e", "e">>
      [] got = TagType    -> <<"t", "a", "g">>
      [] OTHER            -> <<>>

Blob(data)   == [format |-> BlobType, data |-> data]
Commit(m)    == [format |-> CommitType, kvlm |-> m]
Format(obj)  == obj.format

\* obj.Serialize(): a blob returns its data, a commit KvlmSerialize(c.kvlm)
Serialize(obj) ==
    IF obj.format = BlobType
    THEN [called |-> TRUE, bytes |-> obj.data, err |-> <<>>]
    ELSE KvlmSerialize(obj.kvlm)

DigitChars == <<"0", "1", "2", "3", "4", "5", "6", "7", "8", "9">>
HexChars   == DigitChars \o <<"a", "b", "c", "d", "e", "f">>
Letters    == <<"a", "b", "c", "d", "e", "f", "g", "h", "i", "j", "k", "l", "m",
                "n", "o", "p", "q", "r", "s", "t", "u", "v", "w", "x", "y", "z">>

RECURSIVE Itoa(_)
\* fmt's %d of a non-negative int
Itoa(n) == IF n < 10 THEN <<DigitChars[n + 1]>>
           ELSE Itoa(n \div 10) \o <<DigitChars[(n % 10) + 1]>>

\* the value of a byte
ByteCode(c) ==
    IF c = NUL THEN 0
    ELSE IF c = NewLine THEN 10
    ELSE IF c = CR THEN 13
    ELSE IF c = Space THEN 32
    ELSE IF c = "+" THEN 43
    ELSE IF c = "-" THEN 45
    ELSE IF c = "." THEN 46
    ELSE IF c = "/" THEN 47
    ELSE IF c = ":" THEN 58
    ELSE IF c = "<" THEN 60
    ELSE IF c = ">" THEN 62
    ELSE IF \E i \in 1..10 : DigitChars[i] = c
         THEN 47 + (CHOOSE i \in 1..10 : DigitChars[i] = c)
    ELSE 96 + (CHOOSE i \in 1..26 : Letters[i] = c)

\* prepareObject: header "<type> <len>\x00" followed by the data
prepareObject(obType, data) ==
    String(obType) \o <<Space>> \o Itoa(Len(data)) \o <<NUL>> \o data

DigestMod   == 65536

RECURSIVE DigestFrom(_, _)
\* hash.Write over the content, from state h (a state below DigestMod)
DigestFrom(h, content) ==
    IF content = <<>> \/ h >= DigestMod THEN h
    ELSE DigestFrom((h * 31 + ByteCode(Head(content)) + 1) % DigestMod, Tail(content))

\* hex.EncodeToString of one byte
HexByte(b) == <<HexChars[(b \div 16) + 1], HexChars[(b % 16) + 1]>>

\* calculateSHA: the digest of the content as a hexadecimal string
calculateSHA(content) ==
    LET sum == DigestFrom(7, content)
    IN  HexByte(sum \div 256) \o HexByte(sum % 256)

GitDir    == <<".", "j", "u", "s", "t", "d", "o", "i", "t">>
ObjectDir == <<"o", "b", "j", "e", "c", "t", "s">>

\* CreateRepoPath: the path segments under repo.GitDir
CreateRepoPath(paths) == <<GitDir>> \o paths

\* os.MkdirAll: the directory and its missing parents; it fails on a file in
\* the way
MkdirAll(f, path) ==
    LET prefixes == {SubSeq(path, 1, n) : n \in 1..Len(path)}
    IN  IF \E q \in prefixes : q \in DOMAIN f.files
        THEN [fs |-> f, err |-> TRUE]
        ELSE [fs |-> [f EXCEPT !.dirs = @ \cup prefixes], err |-> FALSE]

\* EnsureGitDirExists: [fs, path, err]; the path is "" unless the directory
\* exists or was made
EnsureGitDirExists(f, mkdir, paths) ==
    LET path == CreateRepoPath(paths)
    IN  IF path \in f.dirs THEN [fs |-> f, path |-> path, err |-> FALSE]
        ELSE IF path \in DOMAIN f.files THEN [fs |-> f, path |-> <<>>, err |-> FALSE]
        ELSE IF mkdir
             THEN LET made == MkdirAll(f, path)
                  IN  [fs |-> made.fs,
                       path |-> IF made.err THEN <<>> ELSE path,
                       err |-> made.err]
        ELSE [fs |-> f, path |-> <<>>, err |-> FALSE]

\* GetGitFilePath: [fs, path]; the directory of the file is ensured first
GetGitFilePath(f, mkdir, paths) ==
    LET dir == EnsureGitDirExists(f, mkdir, SubSeq(paths, 1, Len(paths) - 1))
    IN  [fs |-> dir.fs,
         path |-> IF dir.err THEN <<>> ELSE CreateRepoPath(paths)]

\* zlib.NewWriter, Write, Close
ZlibCompress(content) == <<"zlib">> \o content

\* os.WriteFile: it needs the parent directory, and no directory at the path
OsWriteFile(f, path, data) ==
    IF \/ path = <<>>
       \/ SubSeq(path, 1, Len(path) - 1) \notin f.dirs
       \/ path \in f.dirs
    THEN [fs |-> f, err |-> TRUE]
    ELSE [fs |-> [f EXCEPT !.files =
                      [q \in DOMAIN f.files \cup {path} |->
                          IF q = path THEN data ELSE f.files[q]]],
          err |-> FALSE]

\* writeFile: the compressed content written to the path
writeFile(f, path, content) == OsWriteFile(f, path, ZlibCompress(content))

\* WriteObject with the directory created and the file written whatever
\* changeRepo says
WriteObjectAlwaysPersisting(f, obj, changeRepo) ==
    LET s == Serialize(obj)
        content == prepareObject(Format(obj), s.bytes)
        sha == calculateSHA(content)
        g == GetGitFilePath(f, TRUE, <<ObjectDir, Slice(sha, 0, 2), SliceFrom(sha, 2)>>)
        w == writeFile(g.fs, g.path, content)
    IN  IF s.err # <<>>
        THEN [fs |-> f, sha |-> <<>>, err |-> "failed to serialize object"]
        ELSE IF w.err
        THEN [fs |-> w.fs, sha |-> <<>>, err |-> "failed to write object"]
        ELSE [fs |-> w.fs, sha |-> sha, err |-> Nil]

\* WriteObject: [fs, sha, err]
WriteObject(f, obj, changeRepo) ==
    LET s == Serialize(obj)
        content == prepareObject(Format(obj), s.bytes)
        sha == calculateSHA(content)
        g == GetGitFilePath(f, TRUE, <<ObjectDir, Slice(sha, 0, 2), SliceFrom(sha, 2)>>)
        w == writeFile(g.fs, g.path, content)
    IN  IF s.err # <<>>
        THEN [fs |-> f, sha |-> <<>>, err |-> "failed to serialize object"]
        ELSE IF changeRepo
        THEN IF w.err
             THEN [fs |-> w.fs, sha |-> <<>>, err |-> "failed to write object"]
             ELSE [fs |-> w.fs, sha |-> sha, err |-> Nil]
        ELSE [fs |-> f, sha |-> sha, err |-> Nil]

-----------------------------------------------------------------------------
(* Go library calls used by the decoders *)

RECURSIVE Split(_, _)
\* bytes.Split(s, sep) for a one-byte separator
Split(s, sep) ==
    IF IndexByte(s, sep) < 0 THEN <<s>>
    ELSE <<Slice(s, 0, IndexByte(s, sep))>> \o Split(SliceFrom(s, IndexByte(s, sep) + 1), sep)

\* bytes.SplitN(s, sep, 2) for a one-byte separator
SplitN2(s, sep) ==
    IF IndexByte(s, sep) < 0 THEN <<s>>
    ELSE <<Slice(s, 0, IndexByte(s, sep)), SliceFrom(s, IndexByte(s, sep) + 1)>>

RECURSIVE Join(_, _)
\* bytes.Join(parts, sep)
Join(parts, sep) ==
    IF parts = <<>> THEN <<>>
    ELSE IF Len(parts) = 1 THEN parts[1]
    ELSE parts[1] \o sep \o Join(Tail(parts), sep)

WhiteSpace == {Space, NewLine, CR, "\t"}

RECURSIVE TrimLeft(_)
TrimLeft(s) == IF s # <<>> /\ Head(s) \in WhiteSpace THEN TrimLeft(Tail(s)) ELSE s

RECURSIVE TrimRight(_)
TrimRight(s) ==
    IF s # <<>> /\ s[Len(s)] \in WhiteSpace THEN TrimRight(SubSeq(s, 1, Len(s) - 1)) ELSE s

\* bytes.TrimSpace
TrimSpace(s) == TrimRight(TrimLeft(s))

\* bytes.TrimSuffix(s, suffix) for a one-byte suffix
TrimSuffix(s, c) ==
    IF s # <<>> /\ s[Len(s)] = c THEN SubSeq(s, 1, Len(s) - 1) ELSE s

Digits == {"0", "1", "2", "3", "4", "5", "6", "7", "8", "9"}

RECURSIVE DigitsValue(_)
\* the number a run of decimal digits denotes
DigitsValue(ds) ==
    IF ds = <<>> THEN 0
    ELSE DigitsValue(SubSeq(ds, 1, Len(ds) - 1)) * 10
             + (CHOOSE n \in 0..9 : ds[Len(ds)] = Itoa(n)[1])

\* strconv.ParseInt(s, 10, 64) and strconv.Atoi(s): [ok, n]; an optional sign
\* and at least one digit.  The numbers met here stay far from the width.
ParseInt(s) ==
    LET signed == s # <<>> /\ s[1] \in {"+", "-"}
        ds     == IF signed THEN Tail(s) ELSE s
    IN  IF ds = <<>> \/ \E i \in 1..Len(ds) : ds[i] \notin Digits
        THEN [ok |-> FALSE, n |-> 0]
        ELSE [ok |-> TRUE,
              n  |-> IF signed /\ s[1] = "-" THEN 0 - DigitsValue(ds) ELSE DigitsValue(ds)]

-----------------------------------------------------------------------------
(* app/cmd/objects/commit.go: signatures and commits *)

\* time.Unix(sec, 0), and the zero time.Time
TimeUnix(sec) == [unix |-> sec]
ZeroTime      == [zero |-> TRUE]

\* the zero GitSignature
ZeroSignature == [Name |-> <<>>, Email |-> <<>>, When |-> ZeroTime]

InvalidSignature(sign) == <<"invalid signature", sign>>

\* ParseSignature reading the timestamp from the last token, as parseSignature
\* of the older commit.go does
ParseSignatureLastToken(sign) ==
    LET parts == Split(sign, Space)
        nameAndEmail ==
            SplitN2(Join(SubSeq(parts, 1, Len(parts) - 2), <<Space>>), "<")
        timestamp == ParseInt(parts[Len(parts)])
    IN  IF Len(parts) < 4
        THEN [sign |-> ZeroSignature, err |-> InvalidSignature(sign)]
        ELSE IF Len(nameAndEmail) # 2
        THEN [sign |-> ZeroSignature, err |-> <<"invalid name and email format">>]
        ELSE IF ~timestamp.ok
        THEN [sign |-> ZeroSignature, err |-> <<"invalid timestamp">>]
        ELSE [sign |-> [Name  |-> TrimSpace(nameAndEmail[1]),
                        Email |-> TrimSuffix(nameAndEmail[2], ">"),
                        When  |-> TimeUnix(timestamp.n)],
              err |-> <<>>]

\* ParseSignature: [sign, err]
ParseSignature(sign) ==
    LET parts == Split(sign, Space)
        nameAndEmail ==
            SplitN2(Join(SubSeq(parts, 1, Len(parts) - 2), <<Space>>), "<")
        timestamp == ParseInt(parts[Len(parts) - 1])
    IN  IF Len(parts) < 4
        THEN [sign |-> ZeroSignature, err |-> InvalidSignature(sign)]
        ELSE IF Len(nameAndEmail) # 2
        THEN [sign |-> ZeroSignature, err |-> <<"invalid name and email format">>]
        ELSE IF ~timestamp.ok
        THEN [sign |-> ZeroSignature, err |-> <<"invalid timestamp">>]
        ELSE [sign |-> [Name  |-> TrimSpace(nameAndEmail[1]),
                        Email |-> TrimSuffix(nameAndEmail[2], ">"),
                        When  |-> TimeUnix(timestamp.n)],
              err |-> <<>>]

TreeKey      == <<"t", "r", "e", "e">>
ParentKey    == <<"p", "a", "r", "e", "n", "t">>
AuthorKey    == <<"a", "u", "t", "h", "o", "r">>
CommitterKey == <<"c", "o", "m", "m", "i", "t", "t", "e", "r">>
MessageName  == <<"m", "e", "s", "s", "a", "g", "e">>

CommitKeyMissing(key) == <<"missing key in commit object", key>>

\* a nil *GitCommit
NilCommit == [nil |-> TRUE]

\* what CreateCommitFromKVLM does when it does not return
Panicked == [panic |-> TRUE]

\* commit.Parents after the switch on the type of the parent value
ParentsOf(m) ==
    LET p == Get(m, ParentKey)
    IN  IF p[2] /\ p[1].t = "bytes" THEN <<p[1].v>>
        ELSE IF p[2] /\ p[1].t = "list" THEN p[1].v
        ELSE <<>>

\* CreateCommitFromKVLM: [commit, err], or Panicked where a type assertion
\* .([]byte) meets a value of another type
CreateCommitFromKVLM(m) ==
    LET tree      == Get(m, TreeKey)
        author    == Get(m, AuthorKey)
        committer == Get(m, CommitterKey)
        message   == Get(m, <<>>)
        authorSign    == ParseSignature(author[1].v)
        committerSign == ParseSignature(committer[1].v)
    IN  IF ~tree[2] THEN [commit |-> NilCommit, err |-> CommitKeyMissing(TreeKey)]
        ELSE IF tree[1].t # "bytes" THEN Panicked
        ELSE IF ~author[2] THEN [commit |-> NilCommit, err |-> CommitKeyMissing(AuthorKey)]
        ELSE IF author[1].t # "bytes" THEN Panicked
        ELSE IF authorSign.err # <<>> THEN [commit |-> NilCommit, err |-> authorSign.err]
        ELSE IF ~committer[2]
        THEN [commit |-> NilCommit, err |-> CommitKeyMissing(CommitterKey)]
        ELSE IF committer[1].t # "bytes" THEN Panicked
        ELSE IF committerSign.err # <<>>
        THEN [commit |-> NilCommit, err |-> committerSign.err]
        ELSE IF ~message[2] THEN [commit |-> NilCommit, err |-> CommitKeyMissing(MessageName)]
        ELSE IF message[1].t # "bytes" THEN Panicked
        ELSE [commit |-> [Tree      |-> tree[1].v,
                          Parents   |-> ParentsOf(m),
                          Author    |-> authorSign.sign,
                          Committer |-> committerSign.sign,
                          Message   |-> message[1].v],
              err |-> <<>>]

-----------------------------------------------------------------------------
(* KvlmParse as one call, for the callers that decode a commit: the set of  *)
(* ways the call can end.  It is the code of ParseEntry, ScanStep and       *)
(* StoreStep run to the end.                                                *)

\* the call never returns: the scan loop comes back to an end it had before
Looping == [loop |-> TRUE]

ScanPanics == 0 - 2
ScanLoops  == 0 - 3

RECURSIVE ScanEnd(_, _, _)
\* the loop "Find the end of the value" from end on: the end it leaves with,
\* ScanPanics where raw[end+1:] is out of range, ScanLoops where it spins
ScanEnd(b, e, seen) ==
    IF e \in seen THEN ScanLoops
    ELSE IF e + 1 > Len(b) THEN ScanPanics
    ELSE LET n == IndexByte(SliceFrom(b, e + 1), NewLine)
         IN  IF n < 0 \/ Len(b) <= n + 2 \/ At(b, n + 2) # Space THEN n
             ELSE ScanEnd(b, n + 1, seen \cup {e})

\* what b[:hi] can hold (see Backing)
BackingOf(b, hi) ==
    IF hi <= Len(b) THEN {b}
    ELSE {b \o x : x \in [1..(hi - Len(b)) -> ParseBytes]}

RECURSIVE KvlmParseOutcomes(_, _, _)
\* KvlmParse(b, s, d) with d not nil: the dictionaries it can return, Panicked
\* and Looping
KvlmParseOutcomes(b, s, d) ==
    IF s >= Len(b) THEN {d}
    ELSE LET sp == IndexByte(SliceFrom(b, s), Space)
             nl == IndexByte(SliceFrom(b, s), NewLine)
             e  == ScanEnd(b, s, {})
             hi == IF e < 0 THEN Len(b) ELSE e + s + 1
             lo == s + sp + 1
         IN  IF sp < 0 \/ (nl >= 0 /\ nl < sp)
             THEN {IF nl # s THEN d ELSE Set(d, <<>>, BytesVal(SliceFrom(b, s + 1)))}
             ELSE IF e = ScanLoops THEN {Looping}
             ELSE IF e = ScanPanics THEN {Panicked}
             ELSE (IF lo > hi \/ hi > Len(b) THEN {Panicked} ELSE {})
                  \cup (IF lo > hi THEN {}
                        ELSE UNION {
                          LET d2 == Accumulate(d, Slice(b, s, s + sp),
                                               Replace(Slice(buf, lo, hi)))
                          IN  IF d2 = NilDict THEN {Panicked}
                              ELSE KvlmParseOutcomes(b, hi + 1, d2)
                          : buf \in BackingOf(b, hi)})

-----------------------------------------------------------------------------
(* app/cmd/objects/object.go: reading an object *)

\* zlib.NewReader and io.Copy: the stream ZlibCompress wrote gives its content
\* back, other bytes are no zlib stream
ZlibDecompress(file) ==
    IF Len(file) >= 1 /\ file[1] = "zlib"
    THEN [ok |-> TRUE, content |-> Tail(file)]
    ELSE [ok |-> FALSE, content |-> <<>>]

\* readFile: [content, err]; a file that is no zlib stream makes the deferred
\* reader.Close() run on a nil reader, which panics
readFile(f, path) ==
    IF path \notin DOMAIN f.files
    THEN [content |-> <<>>, err |-> <<"open">>]
    ELSE IF ~ZlibDecompress(f.files[path]).ok THEN Panicked
    ELSE [content |-> ZlibDecompress(f.files[path]).content, err |-> <<>>]

\* TypeFromString: [ot, ok]
TypeFromString(str) ==
    IF \E t \in {BlobType, CommitType, TreeType, TagType} : String(t) = str
    THEN [ot |-> CHOOSE t \in {BlobType, CommitType, TreeType, TagType} :
                     String(t) = str,
          ok |-> TRUE]
    ELSE [ot |-> 0, ok |-> FALSE]

\* strconv.Atoi
Atoi(s) == ParseInt(s)

\* a plausible slip: the header is cut at the last NUL of the content
parseObjectLastNul(content) ==
    LET nullIndex == CHOOSE i \in -1..(Len(content) - 1) :
                         /\ i >= 0 => At(content, i) = NUL
                         /\ \A j \in (i + 1)..(Len(content) - 1) : At(content, j) # NUL
        header == Slice(content, 0, nullIndex)
        parts == SplitN2(header, Space)
        ty == TypeFromString(parts[1])
        size == Atoi(parts[2])
        data == SliceFrom(content, nullIndex + 1)
    IN  IF nullIndex = -1
        THEN [ot |-> 0, data |-> Nil, err |-> <<"invalid object format">>]
        ELSE IF Len(parts) # 2
        THEN [ot |-> 0, data |-> Nil, err |-> <<"invalid object header">>]
        ELSE IF ~ty.ok
        THEN [ot |-> ty.ot, data |-> Nil, err |-> <<"invalid object type", parts[1]>>]
        ELSE IF ~size.ok
        THEN [ot |-> ty.ot, data |-> Nil, err |-> <<"invalid object size">>]
        ELSE IF Len(data) # size.n
        THEN [ot |-> ty.ot, data |-> Nil, err |-> <<"object size mismatch">>]
        ELSE [ot |-> ty.ot, data |-> data, err |-> <<>>]

\* a plausible slip: the declared size is parsed and not compared
parseObjectLenient(content) ==
    LET nullIndex == IndexByte(content, NUL)
        header == Slice(content, 0, nullIndex)
        parts == SplitN2(header, Space)
        ty == TypeFromString(parts[1])
        size == Atoi(parts[2])
        data == SliceFrom(content, nullIndex + 1)
    IN  IF nullIndex = -1
        THEN [ot |-> 0, data |-> Nil, err |-> <<"invalid object format">>]
        ELSE IF Len(parts) # 2
        THEN [ot |-> 0, data |-> Nil, err |-> <<"invalid object header">>]
        ELSE IF ~ty.ok
        THEN [ot |-> ty.ot, data |-> Nil, err |-> <<"invalid object type", parts[1]>>]
        ELSE IF ~size.ok
        THEN [ot |-> ty.ot, data |-> Nil, err |-> <<"invalid object size">>]
        ELSE [ot |-> ty.ot, data |-> data, err |-> <<>>]

\* parseObject: [ot, data, err]
parseObject(content) ==
    LET nullIndex == IndexByte(content, NUL)
        header == Slice(content, 0, nullIndex)
        parts == SplitN2(header, Space)
        ty == TypeFromString(parts[1])
        size == Atoi(parts[2])
        data == SliceFrom(content, nullIndex + 1)
    IN  IF nullIndex = -1
        THEN [ot |-> 0, data |-> Nil, err |-> <<"invalid object format">>]
        ELSE IF Len(parts) # 2
        THEN [ot |-> 0, data |-> Nil, err |-> <<"invalid object header">>]
        ELSE IF ~ty.ok
        THEN [ot |-> ty.ot, data |-> Nil, err |-> <<"invalid object type", parts[1]>>]
        ELSE IF ~size.ok
        THEN [ot |-> ty.ot, data |-> Nil, err |-> <<"invalid object size">>]
        ELSE IF Len(data) # size.n
        THEN [ot |-> ty.ot, data |-> Nil, err |-> <<"object size mismatch">>]
        ELSE [ot |-> ty.ot, data |-> data, err |-> <<>>]

\* a nil GitObject
NilObject == [nil |-> TRUE]

\* createObject: [obj, err]
createObject(ot) ==
    IF ot = BlobType THEN [obj |-> Blob(<<>>), err |-> <<>>]
    ELSE IF ot = CommitType THEN [obj |-> Commit(New), err |-> <<>>]
    ELSE [obj |-> NilObject, err |-> <<"unsupported object type", String(ot)>>]

\* a commit object after Deserialize
DecodedCommit(m, c) == [format |-> CommitType, kvlm |-> m, commit |-> c]

\* CommitObject.Deserialize once KvlmParse has returned d
DeserializeCommit(d) ==
    LET c == CreateCommitFromKVLM(d)
    IN  IF c = Panicked THEN Panicked
        ELSE IF c.err # <<>> THEN [obj |-> Commit(d), err |-> c.err]
        ELSE [obj |-> DecodedCommit(d, c.commit), err |-> <<>>]

\* object.Deserialize(data): the ways it can end, each [obj, err], Panicked or
\* Looping
Deserialize(obj, data) ==
    IF obj.format = BlobType THEN {[obj |-> Blob(data), err |-> <<>>]}
    ELSE {IF d \in {Panicked, Looping} THEN d ELSE DeserializeCommit(d)
          : d \in KvlmParseOutcomes(data, 0, obj.kvlm)}

\* ReadObject: the ways it can end, each [obj, err], Panicked or Looping
ReadObject(f, sha) ==
    IF Len(sha) < 2 THEN {Panicked}
    ELSE LET g == GetGitFilePath(f, FALSE,
                                 <<ObjectDir, Slice(sha, 0, 2), SliceFrom(sha, 2)>>)
             file == readFile(f, g.path)
             parsed == parseObject(file.content)
             made == createObject(parsed.ot)
         IN  IF file = Panicked THEN {Panicked}
             ELSE IF file.err # <<>>
             THEN {[obj |-> NilObject, err |-> <<"failed to read object">> \o file.err]}
             ELSE IF parsed.err # <<>>
             THEN {[obj |-> NilObject, err |-> <<"failed to parse object">> \o parsed.err]}
             ELSE IF made.err # <<>> THEN {[obj |-> NilObject, err |-> made.err]}
             ELSE {IF o \in {Panicked, Looping} THEN o
                   ELSE IF o.err # <<>>
                   THEN [obj |-> NilObject,
                         err |-> <<"failed to deserialize object">> \o o.err]
                   ELSE o
                   : o \in Deserialize(made.obj, parsed.data)}

-----------------------------------------------------------------------------
(* app/cmd/objects/tree.go: tree entries *)

ShaSize == 20

\* the bytes the hashes of the trees are made of
ModelBytes ==
    {NUL, NewLine, CR, Space, ".", "/"}
        \cup {DigitChars[i] : i \in 1..10} \cup {Letters[i] : i \in 1..26}

RECURSIVE HexEncodeToString(_)
HexEncodeToString(b) ==
    IF b = <<>> THEN <<>> ELSE HexByte(ByteCode(Head(b))) \o HexEncodeToString(Tail(b))

\* the value of a hex digit, -1 for another character
HexDigit(c) ==
    IF \E i \in 1..16 : HexChars[i] = c
    THEN (CHOOSE i \in 1..16 : HexChars[i] = c) - 1
    ELSE -1

RECURSIVE HexDecodeString(_)
\* hex.DecodeString: [bytes, ok]
HexDecodeString(h) ==
    IF h = <<>> THEN [bytes |-> <<>>, ok |-> TRUE]
    ELSE IF Len(h) = 1 \/ HexDigit(h[1]) < 0 \/ HexDigit(h[2]) < 0
    THEN [bytes |-> <<>>, ok |-> FALSE]
    ELSE LET rest == HexDecodeString(SubSeq(h, 3, Len(h)))
             code == 16 * HexDigit(h[1]) + HexDigit(h[2])
         IN  IF ~rest.ok THEN rest
             ELSE [bytes |-> <<CHOOSE c \in ModelBytes : ByteCode(c) = code>>
                                 \o rest.bytes,
                   ok |-> TRUE]

\* a < b for Go strings: byte by byte, a proper prefix first
RECURSIVE StringLess(_, _)
StringLess(a, b) ==
    IF b = <<>> THEN FALSE
    ELSE IF a = <<>> THEN TRUE
    ELSE IF Head(a) # Head(b) THEN ByteCode(Head(a)) < ByteCode(Head(b))
    ELSE StringLess(Tail(a), Tail(b))

GitTreeLeaf(mode, sha, path) == [mode |-> mode, sha |-> sha, path |-> path]

InvalidTreeEntry(problem) == <<"invalid tree entry", problem>>

\* GitTreeLeaf.Type: [ot, err], or Panicked where mode[:2] is out of range
Type(leaf) ==
    LET typeStr == IF Len(leaf.mode) = 5 THEN Slice(leaf.mode, 0, 1)
                   ELSE Slice(leaf.mode, 0, 2)
    IN  IF Len(leaf.mode) < 2 THEN Panicked
        ELSE IF typeStr = <<"1", "0">> THEN [ot |-> BlobType, err |-> <<>>]
        ELSE IF typeStr = <<"0", "4">> THEN [ot |-> TreeType, err |-> <<>>]
        ELSE IF typeStr = <<"1", "6">> THEN [ot |-> CommitType, err |-> <<>>]
        ELSE IF typeStr = <<"1", "2">> THEN [ot |-> BlobType, err |-> <<>>]
        ELSE [ot |-> 0, err |-> <<"invalid object type", typeStr>>]

\* a nil *GitTreeLeaf
NilLeaf == [nil |-> TRUE]

\* parseSingleTreeEntry: [end, leaf, err]
parseSingleTreeEntry(b, s) ==
    LET x == IndexByte(SliceFrom(b, s), Space)
        mode == IF x = 5 THEN <<Space>> \o Slice(b, s, s + x) ELSE Slice(b, s, s + x)
        nullRel == IndexByte(SliceFrom(b, s + x + 1), NUL)
        nullIdx == nullRel + s + x + 1
        path == Slice(b, s + x + 1, nullIdx)
        shaStart == nullIdx + 1
        sha == HexEncodeToString(Slice(b, shaStart, shaStart + ShaSize))
    IN  IF x < 0
        THEN [end |-> 0, leaf |-> NilLeaf, err |-> InvalidTreeEntry("missing mode")]
        ELSE IF x # 5 /\ x # 6
        THEN [end |-> 0, leaf |-> NilLeaf,
              err |-> InvalidTreeEntry("invalid mode length")]
        ELSE IF nullRel < 0
        THEN [end |-> 0, leaf |-> NilLeaf,
              err |-> InvalidTreeEntry("missing null terminator")]
        ELSE IF Len(SliceFrom(b, nullIdx + 1)) < ShaSize
        THEN [end |-> 0, leaf |-> NilLeaf, err |-> InvalidTreeEntry("missing sha")]
        ELSE [end |-> shaStart + ShaSize, leaf |-> GitTreeLeaf(mode, sha, path),
              err |-> <<>>]

RECURSIVE parseTreeFromKeeping(_, _, _)
\* a plausible slip: the entries read before the error are returned with it
parseTreeFromKeeping(b, s, leaves) ==
    IF s >= Len(b)
    THEN [leaves |-> leaves, err |-> <<>>]
    ELSE LET e == parseSingleTreeEntry(b, s)
         IN  IF e.err # <<>> THEN [leaves |-> leaves, err |-> e.err]
             ELSE parseTreeFromKeeping(b, e.end, Append(leaves, e.leaf))

RECURSIVE parseTreeFrom(_, _, _)
\* the loop of parseTree from start s with the leaves read so far
parseTreeFrom(b, s, leaves) ==
    IF s >= Len(b)
    THEN [leaves |-> leaves, err |-> <<>>]
    ELSE LET e == parseSingleTreeEntry(b, s)
         IN  IF e.err # <<>> THEN [leaves |-> <<>>, err |-> e.err]
             ELSE parseTreeFrom(b, e.end, Append(leaves, e.leaf))

\* parseTree: [leaves, err]; a nil slice is the empty sequence
parseTree(b) == parseTreeFrom(b, 0, <<>>)

\* sortFunc of treeSerialize
sortFunc(leaf) ==
    IF Slice(leaf.mode, 0, 2) = <<"1", "0">> THEN leaf.path
    ELSE leaf.path \o <<"/">>

\* sort.Slice: the orders it can leave the entries in; it is not stable, so
\* entries with equal keys end in any order
SortedOrders(entries) ==
    {[i \in 1..Len(entries) |-> entries[p[i]]] :
        p \in {q \in [1..Len(entries) -> 1..Len(entries)] :
                 /\ \A i, j \in 1..Len(entries) : i # j => q[i] # q[j]
                 /\ \A i \in 1..(Len(entries) - 1) :
                       ~StringLess(sortFunc(entries[q[i + 1]]),
                                   sortFunc(entries[q[i]]))}}

RECURSIVE WriteEntries(_, _)
\* the loop over tree.entries: [bytes, ok], writing into the buffer
WriteEntries(entries, buffer) ==
    IF entries = <<>> THEN [bytes |-> buffer, ok |-> TRUE]
    ELSE LET item == Head(entries)
             sha == HexDecodeString(item.sha)
         IN  IF ~sha.ok THEN [bytes |-> <<>>, ok |-> FALSE]
             ELSE WriteEntries(Tail(entries),
                               buffer \o item.mode \o <<Space>> \o item.path
                                      \o <<NUL>> \o sha.bytes)

\* treeSerialize: the ways it can end, each [entries, bytes, err] with the
\* entries as the sort left them, or Panicked where a mode is shorter than
\* the two bytes sortFunc cuts off
treeSerialize(entries) ==
    IF Len(entries) >= 2 /\ \E i \in 1..Len(entries) : Len(entries[i].mode) < 2
    THEN {Panicked}
    ELSE {[entries |-> sorted,
           bytes   |-> WriteEntries(sorted, <<>>).bytes,
           err     |-> IF WriteEntries(sorted, <<>>).ok THEN <<>>
                       ELSE <<"encoding/hex">>]
          : sorted \in SortedOrders(entries)}

-----------------------------------------------------------------------------
(* app/cmd/repository/ref.go: references.  A Go path string is turned into  *)
(* the components of the path as filepath.Join cleans it; the names met     *)
(* here hold no "." or ".." component.  Reference files hold raw bytes.     *)

SymbolicPrefix == <<"r", "e", "f", ":", " ">>

\* strings.HasPrefix, strings.TrimPrefix
HasPrefix(s, p) == Len(s) >= Len(p) /\ SubSeq(s, 1, Len(p)) = p
TrimPrefix(s, p) == IF HasPrefix(s, p) THEN SubSeq(s, Len(p) + 1, Len(s)) ELSE s

\* the components of a slash-separated name
PathComponents(name) == SelectSeq(Split(name, "/"), LAMBDA c : c # <<>>)

RECURSIVE CleanPath(_)
\* filepath.Join over strings that may hold slashes themselves
CleanPath(p) ==
    IF p = <<>> THEN <<>> ELSE PathComponents(Head(p)) \o CleanPath(Tail(p))

\* a path as the string Go passes around
PathString(p) == Join(p, <<"/">>)

\* os.Stat succeeds
PathExists(f, path) == path \in f.dirs \/ path \in DOMAIN f.files

\* fileutils.IsFile: [isFile, err]; os.Stat fails on a path that does not
\* exist
IsFile(f, path) ==
    IF ~PathExists(f, path) THEN [isFile |-> FALSE, err |-> <<"stat">>]
    ELSE [isFile |-> path \notin f.dirs, err |-> <<>>]

RECURSIVE resolveRefFrom(_, _, _)
\* resolveRef after the calls on the names in visited: [ref, err], or
\* Looping when the recursion comes back to a name it was called with
resolveRefFrom(f, refFile, visited) ==
    LET path == CleanPath(GetGitFilePath(f, FALSE, <<refFile>>).path)
        st   == IsFile(f, path)
        data == f.files[path]
        cut  == IF Len(data) > 0 THEN Slice(data, 0, Len(data) - 1) ELSE data
        ref  == TrimPrefix(cut, SymbolicPrefix)
    IN  IF st.err # <<>> THEN [ref |-> <<>>, err |-> st.err]
        ELSE IF ~st.isFile THEN [ref |-> <<>>, err |-> <<>>]
        ELSE IF HasPrefix(cut, SymbolicPrefix)
             THEN IF ref \in visited \cup {refFile} THEN Looping
                  ELSE resolveRefFrom(f, ref, visited \cup {refFile})
        ELSE [ref |-> cut, err |-> <<>>]

\* resolveRef returning the name a symbolic reference holds, not followed
resolveRefNotFollowing(f, refFile) ==
    LET path == CleanPath(GetGitFilePath(f, FALSE, <<refFile>>).path)
        st   == IsFile(f, path)
        data == f.files[path]
        cut  == IF Len(data) > 0 THEN Slice(data, 0, Len(data) - 1) ELSE data
    IN  IF st.err # <<>> THEN [ref |-> <<>>, err |-> st.err]
        ELSE IF ~st.isFile THEN [ref |-> <<>>, err |-> <<>>]
        ELSE [ref |-> TrimPrefix(cut, SymbolicPrefix), err |-> <<>>]

resolveRef(f, refFile) == resolveRefFrom(f, refFile, {})

\* fileutils.ListDir: [names, err]; the entries of a directory
ListDir(f, path) ==
    IF path \notin f.dirs THEN [names |-> {}, err |-> <<"open">>]
    ELSE [names |-> {p[Len(p)] : p \in {q \in f.dirs \cup DOMAIN f.files :
                                           /\ Len(q) = Len(path) + 1
                                           /\ SubSeq(q, 1, Len(path)) = path}},
          err |-> <<>>]

RECURSIVE SortNames(_)
\* sort.Slice by strings.Compare on the names
SortNames(names) ==
    IF names = {} THEN <<>>
    ELSE LET least == CHOOSE n \in names : \A m \in names \ {n} : StringLess(n, m)
         IN  <<least>> \o SortNames(names \ {least})

\* the values ListRefs stores
DictVal(d)   == [t |-> "dict", v |-> d]
StringVal(s) == [t |-> "string", v |-> s]

RECURSIVE ListRefsIn(_, _)
RECURSIVE ListRefsOver(_, _, _, _)
\* the loop of ListRefs over the sorted entries still to visit
ListRefsOver(f, path, files, refs) ==
    IF files = <<>> THEN [refs |-> refs, err |-> <<>>]
    ELSE LET name == Head(files)
             can  == path \o <<name>>
         IN  IF can \in f.dirs
             THEN LET sub == ListRefsIn(f, can)
                  IN  IF sub = Looping THEN Looping
                      ELSE IF sub.err # <<>> THEN [refs |-> NilDict, err |-> sub.err]
                      ELSE ListRefsOver(f, path, Tail(files),
                                        Set(refs, name, DictVal(sub.refs)))
             ELSE LET r == resolveRef(f, PathString(can))
                  IN  IF r = Looping THEN Looping
                      ELSE IF r.err # <<>> THEN [refs |-> NilDict, err |-> r.err]
                      ELSE ListRefsOver(f, path, Tail(files),
                                        Set(refs, name, StringVal(r.ref)))

\* ListRefs on a directory given by its path
ListRefsIn(f, path) ==
    LET files == ListDir(f, path)
    IN  IF files.err # <<>> THEN [refs |-> NilDict, err |-> files.err]
        ELSE ListRefsOver(f, path, SortNames(files.names), New)

DirRefs == <<"r", "e", "f", "s">>

\* ListRefs: [refs, err] or Looping; path "" stands for the refs directory
ListRefs(f, path) ==
    IF path = <<>>
    THEN ListRefsIn(f, EnsureGitDirExists(f, FALSE, <<DirRefs>>).path)
    ELSE ListRefsIn(f, path)

-----------------------------------------------------------------------------
(* app/cmd/objects/tree.go: tags *)

RECURSIVE Fields(_)
\* strings.Fields: the maximal runs of bytes that are no white space
Fields(s) ==
    LET t == TrimLeft(s)
        n == IF \E i \in 1..Len(t) : t[i] \in WhiteSpace
             THEN CHOOSE i \in 1..Len(t) :
                      t[i] \in WhiteSpace /\ \A j \in 1..(i - 1) : t[j] \notin WhiteSpace
             ELSE Len(t) + 1
    IN  IF t = <<>> THEN <<>>
        ELSE <<SubSeq(t, 1, n - 1)>> \o Fields(SubSeq(t, n, Len(t)))

\* fmt's %d of an int64
FormatInt(n) == IF n < 0 THEN <<"-">> \o Itoa(0 - n) ELSE Itoa(n)

\* fmt's %d of time.Time.Unix(); the zero time.Time is 1 January of year 1,
\* 62135596800 seconds before the epoch
FormatUnix(t) ==
    IF t = ZeroTime
    THEN <<"-", "6", "2", "1", "3", "5", "5", "9", "6", "8", "0", "0">>
    ELSE FormatInt(t.unix)

\* the zero GitTag
ZeroTag == [Name |-> <<>>, Object |-> <<>>, Type |-> <<>>, Tagger |-> <<>>,
            Timestamp |-> ZeroTime, Message |-> <<>>]

\* AnnotationTag, with the time.Now() it reads
AnnotationTag(name, sha, tagger, message, now) ==
    [Name |-> name, Object |-> sha, Type |-> String(CommitType),
     Tagger |-> tagger, Timestamp |-> now, Message |-> message]

IsAnnotation(gt) == gt.Type = String(CommitType)

ObjectKey == <<"o", "b", "j", "e", "c", "t">>
TypeKey   == <<"t", "y", "p", "e">>
TagKey    == <<"t", "a", "g">>
TaggerKey == <<"t", "a", "g", "g", "e", "r">>
UtcZone   == <<"+", "0", "0", "0", "0">>

\* (gt *GitTag) ToKvlm
ToKvlm(gt) ==
    IF IsAnnotation(gt)
    THEN Set(Set(Set(Set(Set(New,
             ObjectKey, BytesVal(gt.Object)),
             TypeKey, BytesVal(gt.Type)),
             TagKey, BytesVal(gt.Name)),
             TaggerKey, BytesVal(gt.Tagger \o <<Space>> \o FormatUnix(gt.Timestamp)
                                     \o <<Space>> \o UtcZone)),
             <<>>, BytesVal(gt.Message))
    ELSE New

\* the field FromKVLM assigns from a key: the value when the key is there
FieldFrom(m, key, old) == IF Get(m, key)[2] THEN Get(m, key)[1].v ELSE old

\* FromKVLM reading the timestamp from the last token of the tagger
FromKVLMLastToken(gt, m) ==
    LET parts == Fields(FieldFrom(m, TaggerKey, <<>>))
        stamp == ParseInt(parts[Len(parts)])
    IN  IF \E k \in {ObjectKey, TagKey, TypeKey, TaggerKey, <<>>} :
               Get(m, k)[2] /\ Get(m, k)[1].t # "bytes"
        THEN Panicked
        ELSE [tag |-> [Name      |-> FieldFrom(m, TagKey, gt.Name),
                       Object    |-> FieldFrom(m, ObjectKey, gt.Object),
                       Type      |-> FieldFrom(m, TypeKey, gt.Type),
                       Tagger    |-> FieldFrom(m, TaggerKey, gt.Tagger),
                       Timestamp |-> IF Get(m, TaggerKey)[2] /\ Len(parts) >= 2 /\ stamp.ok
                                     THEN TimeUnix(stamp.n) ELSE gt.Timestamp,
                       Message   |-> FieldFrom(m, <<>>, gt.Message)],
              err |-> <<>>]

\* (gt *GitTag) FromKVLM: [tag, err], or Panicked where a type assertion
\* .([]byte) meets a value of another type
FromKVLM(gt, m) ==
    LET parts == Fields(FieldFrom(m, TaggerKey, <<>>))
        stamp == ParseInt(parts[Len(parts) - 1])
    IN  IF \E k \in {ObjectKey, TagKey, TypeKey, TaggerKey, <<>>} :
               Get(m, k)[2] /\ Get(m, k)[1].t # "bytes"
        THEN Panicked
        ELSE [tag |-> [Name      |-> FieldFrom(m, TagKey, gt.Name),
                       Object    |-> FieldFrom(m, ObjectKey, gt.Object),
                       Type      |-> FieldFrom(m, TypeKey, gt.Type),
                       Tagger    |-> FieldFrom(m, TaggerKey, gt.Tagger),
                       Timestamp |-> IF Get(m, TaggerKey)[2] /\ Len(parts) >= 2 /\ stamp.ok
                                     THEN TimeUnix(stamp.n) ELSE gt.Timestamp,
                       Message   |-> FieldFrom(m, <<>>, gt.Message)],
              err |-> <<>>]

\* Tag(): a TagObject holding a map
Tag(m) == [format |-> TagType, kvlm |-> m]

\* (om *ObjectManager) FindObject
FindObject(sha, ot, follow) == sha

TagsDir == <<"t", "a", "g", "s">>

\* createRef: [fs, err]; the hash and a newline written to refs/<refName>
createRef(f, refName, sha) ==
    LET refPath == PathString(CleanPath(<<DirRefs, refName>>))
        path    == CleanPath(GetGitFilePath(f, FALSE, <<refPath>>).path)
    IN  OsWriteFile(f, path, sha \o <<NewLine>>)

\* CreateTag writing the tag object to the repository
CreateTagStoringObject(f, name, ref, createTagObject, tagger, message, now) ==
    LET sha     == FindObject(ref, TagType, TRUE)
        tagInfo == AnnotationTag(name, sha, tagger, message, now)
        w       == WriteObject(f, Tag(ToKvlm(tagInfo)), TRUE)
        refName == PathString(CleanPath(<<TagsDir, name>>))
    IN  IF createTagObject
        THEN IF w.err # Nil THEN [fs |-> w.fs, err |-> TRUE]
             ELSE createRef(w.fs, refName, w.sha)
        ELSE createRef(f, refName, sha)

\* CreateTag: [fs, err]; now is the time.Now() AnnotationTag reads
CreateTag(f, name, ref, createTagObject, tagger, message, now) ==
    LET sha     == FindObject(ref, TagType, TRUE)
        tagInfo == AnnotationTag(name, sha, tagger, message, now)
        w       == WriteObject(f, Tag(ToKvlm(tagInfo)), FALSE)
        refName == PathString(CleanPath(<<TagsDir, name>>))
    IN  IF createTagObject
        THEN IF w.err # Nil THEN [fs |-> w.fs, err |-> TRUE]
             ELSE createRef(w.fs, refName, w.sha)
        ELSE createRef(f, refName, sha)

-----------------------------------------------------------------------------
(* SpecStore: any sequence of WriteObject calls on one repository *)

MaxWrites == 2
MaxBlob == 1

\* the objects written: blobs of up to MaxBlob bytes, and one of ten bytes
\* (a two-digit length), commits with and without a value KvlmSerialize
\* rejects
StoreObjects ==
    {Blob(d) : d \in SeqsUpTo({"a"}, MaxBlob)}
        \cup {Blob(<<NewLine>>),
              Blob(<<"a", NUL, "a", "a", "a", "a", "a", "a", "a", NewLine>>)}
        \cup {Commit(New),
              Commit(Set(Set(New, <<"a">>, BytesVal(<<"a">>)), <<>>, BytesVal(<<"a">>))),
              Commit(Set(New, <<"a">>, IntVal(123)))}

\* the git directory, with or without its objects directory
InitStore ==
    /\ DictIdle /\ KvlmIdle /\ FnIdle
    /\ fs \in {[dirs |-> {<<GitDir>>}, files |-> <<>>],
               [dirs |-> {<<GitDir>>, <<GitDir, ObjectDir>>}, files |-> <<>>]}
    /\ wr = <<>>
    /\ nwrites = 0
    /\ rd = NotRead

WriteObjectOp ==
    /\ nwrites < MaxWrites
    /\ \E obj \in StoreObjects, changeRepo \in BOOLEAN :
           LET r == WriteObject(fs, obj, changeRepo)
           IN  /\ fs' = r.fs
               /\ wr' = Append(wr, [obj |-> obj, changeRepo |-> changeRepo,
                                    sha |-> r.sha, err |-> r.err,
                                    before |-> fs, after |-> r.fs])
    /\ nwrites' = nwrites + 1
    /\ UNCHANGED rd
    /\ UNCHANGED <<dictVars, kvlmVars, fnVars>>

\* a hash that names no stored object
MissingSha == <<"0", "0", "0", "0">>

\* ReadObject with the hash of an earlier write, or with MissingSha; one read
\* is followed, at any point between the writes
ReadObjectOp ==
    /\ ~rd.called
    /\ \E sha \in {wr[i].sha : i \in 1..Len(wr)} \cup {MissingSha} :
          \E o \in ReadObject(fs, sha) :
              rd' = [called |-> TRUE, sha |-> sha, at |-> Len(wr), out |-> o]
    /\ UNCHANGED <<fs, wr, nwrites>>
    /\ UNCHANGED <<dictVars, kvlmVars, fnVars>>

NextStore == WriteObjectOp \/ ReadObjectOp

SpecStore == InitStore /\ [][NextStore]_vars

-----------------------------------------------------------------------------
(* SpecRead: ReadObject on a repository that holds one object file *)

\* payload bytes after the header
MaxPayload == 2

\* the hash the file is stored under
StoredSha == <<"a", "b", "c", "d">>

ReadTypeNames == {String(BlobType), String(CommitType), String(TreeType),
                  String(TagType), <<"x">>, <<>>}
ReadSizes     == {<<"0">>, <<"1">>, <<"2">>, <<"0", "1">>, <<"+", "1">>,
                  <<"x">>, <<>>}

\* what the file decompresses to
ReadContents ==
    {ty \o sep \o size \o nul \o payload :
        ty \in ReadTypeNames, sep \in {<<Space>>, <<>>}, size \in ReadSizes,
        nul \in {<<NUL>>, <<>>}, payload \in SeqsUpTo({"a", NUL}, MaxPayload)}

\* the file: a zlib stream of some content, or bytes that are no zlib stream
ReadFiles == {ZlibCompress(c) : c \in ReadContents} \cup {<<"a">>}

InitRead ==
    /\ DictIdle /\ KvlmIdle /\ FnIdle
    /\ \E file \in ReadFiles :
          fs = [dirs  |-> {<<GitDir>>, <<GitDir, ObjectDir>>,
                           <<GitDir, ObjectDir, Slice(StoredSha, 0, 2)>>},
                files |-> (<<GitDir, ObjectDir, Slice(StoredSha, 0, 2),
                             SliceFrom(StoredSha, 2)>> :> file)]
    /\ wr = <<>>
    /\ nwrites = 0
    /\ rd = NotRead

ReadStoredOp ==
    /\ ~rd.called
    /\ \E sha \in {StoredSha, MissingSha, <<"a">>} :
          \E o \in ReadObject(fs, sha) :
              rd' = [called |-> TRUE, sha |-> sha, at |-> 0, out |-> o]
    /\ UNCHANGED <<fs, wr, nwrites>>
    /\ UNCHANGED <<dictVars, kvlmVars, fnVars>>

NextRead == ReadStoredOp

SpecRead == InitRead /\ [][NextRead]_vars

-----------------------------------------------------------------------------
(* SpecSignature: ParseSignature applied to one byte string *)

\* number of space-separated tokens of the inputs
MaxTokens == 5

\* no call has returned yet
NoResult == [returned |-> FALSE]

\* the tokens the inputs are joined from
SigTokens == { <<"J">>, <<"<", "j", ">">>, <<"<", "j">>,
               <<"7">>, <<"-", "1">>, <<>> }

SigInputs ==
    {Join(ts, <<Space>>) : ts \in UNION {[1..n -> SigTokens] : n \in 1..MaxTokens}}

InitSignature ==
    /\ DictIdle /\ KvlmIdle /\ StoreIdle
    /\ arg \in {[sign |-> x] : x \in SigInputs}
    /\ res = NoResult

ParseSignatureOp ==
    /\ res = NoResult
    /\ res' = ParseSignature(arg.sign)
    /\ UNCHANGED arg
    /\ UNCHANGED <<dictVars, kvlmVars, storeVars>>

NextSignature == ParseSignatureOp

SpecSignature == InitSignature /\ [][NextSignature]_vars

-----------------------------------------------------------------------------
(* SpecCommit: CreateCommitFromKVLM applied to one map *)

\* number of parents in a list-valued parent field
MaxParents == 2

GoodSignature == <<"J", Space, "<", "j", ">", Space, "7", Space, "-", "1">>
BadSignature  == <<"J", Space, "7">>

\* what a field of the map can be: absent, or one of the values KvlmParse
\* stores, a byte string or a list of byte strings
Absent == [absent |-> TRUE]

TreeValues      == {Absent, BytesVal(<<"a">>), ListVal(<<<<"a">>, <<"b">>>>)}
ParentValues    ==
    {Absent, BytesVal(<<"a">>)}
        \cup {ListVal(x) : x \in SeqsUpTo({<<"a">>, <<"b">>}, MaxParents)}
SignatureValues == {Absent, BytesVal(GoodSignature), BytesVal(BadSignature),
                    ListVal(<<GoodSignature, GoodSignature>>)}
MessageValues   == {Absent, BytesVal(<<"m">>), BytesVal(<<>>),
                    ListVal(<<<<"m">>, <<"m">>>>)}

SetPresent(d, key, v) == IF v = Absent THEN d ELSE Set(d, key, v)

\* the maps: every choice of the five fields, entered in the order a commit
\* lists them
CommitMaps ==
    {SetPresent(SetPresent(SetPresent(SetPresent(SetPresent(New,
        TreeKey, t), ParentKey, p), AuthorKey, a), CommitterKey, c), <<>>, g)
     : t \in TreeValues, p \in ParentValues, a \in SignatureValues,
       c \in SignatureValues, g \in MessageValues}

InitCommit ==
    /\ DictIdle /\ KvlmIdle /\ StoreIdle
    /\ arg \in {[kvlm |-> m] : m \in CommitMaps}
    /\ res = NoResult

CreateCommitOp ==
    /\ res = NoResult
    /\ res' = CreateCommitFromKVLM(arg.kvlm)
    /\ UNCHANGED arg
    /\ UNCHANGED <<dictVars, kvlmVars, storeVars>>

NextCommit == CreateCommitOp

SpecCommit == InitCommit /\ [][NextCommit]_vars

-----------------------------------------------------------------------------
(* SpecTree: parseTree and Type on one buffer, treeSerialize on one tree *)

\* entries in a buffer that is parsed
MaxEntries == 2

\* entries in a tree that is serialized
MaxLeaves == 3

HashA == [i \in 1..ShaSize |-> "a"]
HashB == [i \in 1..ShaSize |->
             IF i = 1 THEN Space ELSE IF i = 2 THEN NUL
             ELSE IF i = 3 THEN NewLine ELSE "a"]

TreeModes == { <<"1", "0", "0", "6", "4", "4">>, <<"0", "4", "0", "0", "0", "0">>,
               <<"4", "0", "0", "0", "0">>, <<"1", "6", "0", "0", "0", "0">>,
               <<"1", "2", "0", "0", "0", "0">>, <<"9", "9", "9", "9", "9", "9">> }

\* entries as they are stored: mode, space, path, NUL, 20 hash bytes
GoodPieces ==
    {mode \o <<Space>> \o ph[1] \o <<NUL>> \o ph[2] :
        mode \in TreeModes, ph \in {<<<<"a">>, HashA>>, <<<<"b", Space, "c">>, HashB>>}}

\* entries with a defect: no space, a mode of 4 or 7 bytes, no NUL, 19 hash
\* bytes
BadPieces ==
    { <<"1", "0", "0", "6", "4", "4">>,
      <<"1", "0", "0", "6", Space, "a", NUL>> \o HashA,
      <<"1", "0", "0", "6", "4", "4", "4", Space, "a", NUL>> \o HashA,
      <<"1", "0", "0", "6", "4", "4", Space, "a">> \o HashA,
      <<"1", "0", "0", "6", "4", "4", Space, "a", NUL>> \o SubSeq(HashA, 1, 19) }

RECURSIVE Flatten(_)
Flatten(ss) == IF ss = <<>> THEN <<>> ELSE Head(ss) \o Flatten(Tail(ss))

TreeBuffers ==
    {Flatten(ps) : ps \in SeqsUpTo(GoodPieces \cup BadPieces, MaxEntries)}

\* leaves of a tree in memory: files, directories, a symbolic link, a hash
\* that is no hex string, a mode of one byte
TreeLeaves ==
    { GitTreeLeaf(<<"1", "0", "0", "6", "4", "4">>, HexEncodeToString(HashA), <<"a">>),
      GitTreeLeaf(<<"1", "0", "0", "6", "4", "4">>, HexEncodeToString(HashB), <<"b">>),
      GitTreeLeaf(<<"1", "0", "0", "6", "4", "4">>, HexEncodeToString(HashA),
                  <<"a", ".">>),
      GitTreeLeaf(<<"0", "4", "0", "0", "0", "0">>, HexEncodeToString(HashB), <<"a">>),
      GitTreeLeaf(<<"0", "4", "0", "0", "0", "0">>, HexEncodeToString(HashA), <<"b">>),
      GitTreeLeaf(<<"1", "2", "0", "0", "0", "0">>, HexEncodeToString(HashA), <<"a">>),
      GitTreeLeaf(<<"1", "0", "0", "6", "4", "4">>, <<"x", "y">>, <<"c">>),
      GitTreeLeaf(<<"1">>, HexEncodeToString(HashA), <<"c">>) }

Trees == SeqsUpTo(TreeLeaves, MaxLeaves)

InitTree ==
    /\ DictIdle /\ KvlmIdle /\ StoreIdle
    /\ arg \in {[raw |-> b] : b \in TreeBuffers} \cup {[entries |-> t] : t \in Trees}
    /\ res = NoResult

\* GitTree.Deserialize: parseTree
ParseTreeOp ==
    /\ res = NoResult
    /\ "raw" \in DOMAIN arg
    /\ res' = [parsed |-> parseTree(arg.raw), types |-> <<>>, back |-> NoResult]
    /\ UNCHANGED arg
    /\ UNCHANGED <<dictVars, kvlmVars, storeVars>>

\* Type() called on every entry that was parsed
TypeOp ==
    /\ res # NoResult
    /\ "raw" \in DOMAIN arg
    /\ res.types = <<>> /\ res.parsed.leaves # <<>>
    /\ res' = [res EXCEPT !.types =
                  [i \in 1..Len(res.parsed.leaves) |-> Type(res.parsed.leaves[i])]]
    /\ UNCHANGED arg
    /\ UNCHANGED <<dictVars, kvlmVars, storeVars>>

\* GitTree.Serialize: treeSerialize
TreeSerializeOp ==
    /\ res = NoResult
    /\ "entries" \in DOMAIN arg
    /\ \E o \in treeSerialize(arg.entries) : res' = [serialized |-> o]
    /\ UNCHANGED arg
    /\ UNCHANGED <<dictVars, kvlmVars, storeVars>>

\* GitTree.Serialize on the tree that was parsed, and Deserialize of the bytes
SerializeParsedOp ==
    /\ res # NoResult
    /\ "raw" \in DOMAIN arg
    /\ res.parsed.err = <<>> /\ res.back = NoResult
    /\ \E o \in treeSerialize(res.parsed.leaves) :
          res' = [res EXCEPT !.back =
                     [serialized |-> o,
                      reparsed   |-> IF o # Panicked /\ o.err = <<>>
                                     THEN parseTree(o.bytes) ELSE NoResult]]
    /\ UNCHANGED arg
    /\ UNCHANGED <<dictVars, kvlmVars, storeVars>>

NextTree == ParseTreeOp \/ TypeOp \/ TreeSerializeOp

SpecTree == InitTree /\ [][NextTree]_vars

-----------------------------------------------------------------------------
(* SpecTreeCodec: a buffer parsed, the tree serialized and parsed again *)

InitTreeCodec ==
    /\ DictIdle /\ KvlmIdle /\ StoreIdle
    /\ arg \in {[raw |-> b] : b \in TreeBuffers}
    /\ res = NoResult

NextTreeCodec == ParseTreeOp \/ SerializeParsedOp

SpecTreeCodec == InitTreeCodec /\ [][NextTreeCodec]_vars

-----------------------------------------------------------------------------
(* SpecDeserialize: CommitObject.Deserialize, once and a second time on the  *)
(* same object                                                               *)

\* lines of a commit text
MaxCommitLines == 3

CommitLines ==
    { TreeKey \o <<Space, "a", NewLine>>,
      AuthorKey \o <<Space>> \o GoodSignature \o <<NewLine>>,
      CommitterKey \o <<Space>> \o GoodSignature \o <<NewLine>>,
      <<NewLine>>,
      <<"m">> }

CommitTexts == {Flatten(ls) : ls \in SeqsUpTo(CommitLines, MaxCommitLines)}

InitDeserialize ==
    /\ DictIdle /\ KvlmIdle /\ StoreIdle
    /\ arg \in {[data |-> b] : b \in CommitTexts}
    /\ res = NoResult

\* Commit() and the first Deserialize(data)
DeserializeOp ==
    /\ res = NoResult
    /\ \E o \in Deserialize(Commit(New), arg.data) : res' = [out |-> o, calls |-> 1]
    /\ UNCHANGED arg
    /\ UNCHANGED <<dictVars, kvlmVars, storeVars>>

\* Deserialize(data) again on the object the first call returned from; c.kvlm
\* is what the first call left there
DeserializeAgainOp ==
    /\ res # NoResult
    /\ res.calls = 1
    /\ res.out \notin {Panicked, Looping}
    /\ \E o \in Deserialize(res.out.obj, arg.data) : res' = [out |-> o, calls |-> 2]
    /\ UNCHANGED arg
    /\ UNCHANGED <<dictVars, kvlmVars, storeVars>>

NextDeserialize == DeserializeOp \/ DeserializeAgainOp

SpecDeserialize == InitDeserialize /\ [][NextDeserialize]_vars

-----------------------------------------------------------------------------
(* SpecRefs: one call of resolveRef, ListRefs or CreateTag on a repository  *)
(* that holds reference files                                               *)

\* the reference files a repository may hold
MaxRefFiles == 4

HeadName  == <<"H", "E", "A", "D">>
HeadsDir  == <<"h", "e", "a", "d", "s">>
MainName  == <<"m", "a", "i", "n">>
DevName   == <<"d", "e", "v">>

\* the paths of the files under the git directory; the fourth one is where
\* the name <git directory>/refs/heads/main leads when it is resolved
RepoRefPaths ==
    <<<<HeadName>>, <<DirRefs, HeadsDir, MainName>>, <<DirRefs, TagsDir, <<"v">>>>,
      <<GitDir, DirRefs, HeadsDir, MainName>>, <<DirRefs, HeadsDir, DevName>>>>

HashAB == <<"a", "b">>
HashCD == <<"c", "d">>

\* what a reference file holds: a hash with one newline, with none and with
\* two, a symbolic reference to each of the first three files, nothing
RepoRefContents ==
    <<HashAB \o <<NewLine>>,
      HashAB,
      HashAB \o <<NewLine, NewLine>>,
      SymbolicPrefix \o PathString(RepoRefPaths[2]) \o <<NewLine>>,
      SymbolicPrefix \o PathString(RepoRefPaths[3]) \o <<NewLine>>,
      SymbolicPrefix \o PathString(RepoRefPaths[1]) \o <<NewLine>>,
      <<>>>>

\* the choices for file i: 0 is no file; the file under the doubled git
\* directory holds another hash
RepoChoices(i) == IF i = 4 THEN {0, 1} ELSE 0..Len(RepoRefContents)

RepoContentOf(i, c) == IF i = 4 THEN HashCD \o <<NewLine>> ELSE RepoRefContents[c]

\* the repository that holds the chosen files
RepoWith(choice) ==
    LET present == {i \in DOMAIN choice : choice[i] # 0}
    IN  [dirs  |-> {<<GitDir>>, <<GitDir, DirRefs>>, <<GitDir, DirRefs, HeadsDir>>,
                    <<GitDir, DirRefs, TagsDir>>}
                    \cup UNION {{SubSeq(<<GitDir>> \o RepoRefPaths[i], 1, n) :
                                     n \in 1..Len(RepoRefPaths[i])} : i \in present},
         files |-> [p \in {<<GitDir>> \o RepoRefPaths[i] : i \in present} |->
                       LET i == CHOOSE j \in present : <<GitDir>> \o RepoRefPaths[j] = p
                       IN  RepoContentOf(i, choice[i])]]

Repositories ==
    {RepoWith(choice) :
        choice \in {c \in [1..MaxRefFiles -> 0..Len(RepoRefContents)] :
                       \A i \in 1..MaxRefFiles : c[i] \in RepoChoices(i)}}
        \cup {[dirs |-> {<<GitDir>>}, files |-> <<>>]}

\* the names resolveRef is called with: the files, a directory, a name that
\* is no file
ResolveNames ==
    {PathString(RepoRefPaths[i]) : i \in {1, 2, 3}}
        \cup {DirRefs, PathString(<<DirRefs, HeadsDir, <<"n", "o", "n", "e">>>>)}

InitRefs ==
    /\ DictIdle /\ KvlmIdle
    /\ fs \in Repositories
    /\ wr = <<>> /\ nwrites = 0 /\ rd = NotRead
    /\ arg = [op |-> "none"]
    /\ res = NoResult

ResolveRefOp ==
    /\ res = NoResult
    /\ \E refFile \in ResolveNames :
          /\ arg' = [op |-> "resolveRef", refFile |-> refFile]
          /\ res' = [out |-> resolveRef(fs, refFile)]
    /\ UNCHANGED <<fs, wr, nwrites, rd>>
    /\ UNCHANGED <<dictVars, kvlmVars>>

ListRefsOp ==
    /\ res = NoResult
    /\ arg' = [op |-> "ListRefs", path |-> <<>>]
    /\ res' = [out |-> ListRefs(fs, <<>>)]
    /\ UNCHANGED <<fs, wr, nwrites, rd>>
    /\ UNCHANGED <<dictVars, kvlmVars>>

\* the tag names, one of them in a directory that does not exist
TagNames == {<<"v">>, <<"w", "/", "x">>}

\* what time.Now() may give
TagTimes == {TimeUnix(7), TimeUnix(8)}

CreateTagOp ==
    /\ res = NoResult
    /\ \E name \in TagNames, createTagObject \in BOOLEAN, now \in TagTimes :
          LET r == CreateTag(fs, name, HashCD, createTagObject, <<"j">>, <<"m">>, now)
          IN  /\ arg' = [op |-> "CreateTag", name |-> name, ref |-> HashCD,
                         createTagObject |-> createTagObject, now |-> now,
                         before |-> fs]
              /\ fs' = r.fs
              /\ res' = [err |-> r.err]
    /\ UNCHANGED <<wr, nwrites, rd>>
    /\ UNCHANGED <<dictVars, kvlmVars>>

NextRefs == ResolveRefOp \/ ListRefsOp \/ CreateTagOp

SpecRefs == InitRefs /\ [][NextRefs]_vars

-----------------------------------------------------------------------------
(* SpecTag: IsAnnotation and ToKvlm on one GitTag, FromKVLM of one map into *)
(* a new GitTag                                                             *)

\* tokens of a tagger string
MaxTagTokens == 3

TagTokens == {<<"j">>, <<"<", "j", ">">>, <<"7">>, UtcZone, <<>>}

\* tagger strings: tokens joined by single spaces (an empty token makes a run
\* of spaces)
TaggerTexts ==
    {Join(ts, <<Space>>) : ts \in UNION {[1..n -> TagTokens] : n \in 0..MaxTagTokens}}

\* the tags IsAnnotation and ToKvlm are called on
GitTags ==
    {[Name |-> <<"v">>, Object |-> HashAB, Type |-> ty, Tagger |-> tagger,
      Timestamp |-> stamp, Message |-> message] :
        ty \in {String(CommitType), String(TagType), <<>>},
        tagger \in {<<"j">>, <<"j", Space, "<", "j", ">">>, <<>>},
        stamp \in {ZeroTime, TimeUnix(0), TimeUnix(7), TimeUnix(1623456789)},
        message \in {<<"m">>, <<>>}}

\* the maps FromKVLM reads: every choice of the five fields; object may be
\* the list KvlmParse stores for a repeated key
TagMaps ==
    {SetPresent(SetPresent(SetPresent(SetPresent(SetPresent(New,
         ObjectKey, object), TypeKey, ty), TagKey, name), TaggerKey, tagger),
         <<>>, message) :
        object  \in {Absent, BytesVal(HashAB), ListVal(<<HashAB, HashCD>>)},
        ty      \in {Absent, BytesVal(String(CommitType))},
        name    \in {Absent, BytesVal(<<"v">>)},
        tagger  \in {Absent} \cup {BytesVal(t) : t \in TaggerTexts},
        message \in {Absent, BytesVal(<<"m">>)}}

InitTag ==
    /\ DictIdle /\ KvlmIdle /\ StoreIdle
    /\ arg \in {[tag |-> t] : t \in GitTags} \cup {[kvlm |-> m] : m \in TagMaps}
    /\ res = NoResult

IsAnnotationOp ==
    /\ res = NoResult
    /\ "tag" \in DOMAIN arg
    /\ res' = [fn |-> "IsAnnotation", out |-> IsAnnotation(arg.tag)]
    /\ UNCHANGED arg
    /\ UNCHANGED <<dictVars, kvlmVars, storeVars>>

ToKvlmOp ==
    /\ res = NoResult
    /\ "tag" \in DOMAIN arg
    /\ res' = [fn |-> "ToKvlm", out |-> ToKvlm(arg.tag)]
    /\ UNCHANGED arg
    /\ UNCHANGED <<dictVars, kvlmVars, storeVars>>

\* tag := &GitTag{}; tag.FromKVLM(kvlm)
FromKVLMOp ==
    /\ res = NoResult
    /\ "kvlm" \in DOMAIN arg
    /\ res' = [fn |-> "FromKVLM", out |-> FromKVLM(ZeroTag, arg.kvlm)]
    /\ UNCHANGED arg
    /\ UNCHANGED <<dictVars, kvlmVars, storeVars>>

NextTag == IsAnnotationOp \/ ToKvlmOp \/ FromKVLMOp

SpecTag == InitTag /\ [][NextTag]_vars

-----------------------------------------------------------------------------
(* Claims about OrderedDict *)

RECURSIVE ClaimedAccumulation(_)
\* what C7 as written says a key holds after the Sets recorded in h: the first
\* value alone, then a list that grows by each further value
ClaimedAccumulation(h) ==
    IF Len(h) = 1 THEN h[1]
    ELSE LET prev == ClaimedAccumulation(SubSeq(h, 1, Len(h) - 1))
         IN  IF prev.t = "list" THEN ListVal(Append(prev.v, h[Len(h)].v))
             ELSE ListVal(<<prev.v, h[Len(h)].v>>)

\* C7 as written: Set on a key that is already present accumulates: a single
\* value is promoted to a 2-element list, an existing list is appended to, so
\* after three Sets of one key Get returns the 3-element list of the values.
C7_SetAccumulates ==
    \A k \in DOMAIN hist :
        Len(hist[k]) >= 2 => Get(od, k) = <<ClaimedAccumulation(hist[k]), TRUE>>

\* C7 as amended: Set on a key that is already present overwrites: whatever
\* number of times a key was set, Get returns the value of the last Set alone
\* (no promotion to a list, no appending) and Keys holds the key once.
C7_SetOverwrites ==
    \A k \in DOMAIN hist :
        /\ Get(od, k) = <<hist[k][Len(hist[k])], TRUE>>
        /\ Cardinality({i \in 1..Len(Keys(od)) : Keys(od)[i] = k}) = 1

\* the same key set three times, with three different byte-string values
C7_Witness ==
    \E k \in DOMAIN hist :
        /\ Len(hist[k]) = 3
        /\ hist[k][1] = BytesVal(<<"x">>) /\ hist[k][2] = BytesVal(<<"y">>)
        /\ hist[k][3] = IntVal(123)
        /\ last.op = "Set"

\* C8: Set on a key that is already present updates that key's value: Get then
\* returns exactly the new value, Len is unchanged and the key keeps its
\* position in Keys().
C8_SetUpdatesInPlace ==
    (last.op = "Set" /\ Has(last.before, last.key)) =>
        /\ Get(od, last.key) = <<last.value, TRUE>>
        /\ Length(od) = Length(last.before)
        /\ \A i \in 1..Length(last.before) :
               Keys(last.before)[i] = last.key => Keys(od)[i] = last.key

\* a Set of a new value on the first of two present keys
C8_Witness ==
    /\ last.op = "Set" /\ Has(last.before, last.key)
    /\ Length(last.before) = 2 /\ Keys(last.before)[1] = last.key
    /\ last.before.dict[last.key] # last.value

\* C9: Keys() holds exactly the keys for which Get reports present, each once,
\* ordered by the call that newly inserted each; Len is their number; Range
\* visits the entries in that order and stops right after the first callback
\* that returns false; Delete of a present key removes it from the value map
\* and the key order without reordering the others; Delete of an absent key
\* changes nothing.
C9_OrderInvariant ==
    /\ {Keys(od)[i] : i \in 1..Length(od)} = {k \in DictKeys : Get(od, k)[2]}
    /\ \A i, j \in 1..Length(od) : i < j =>
           /\ Keys(od)[i] # Keys(od)[j]
           /\ born[Keys(od)[i]] < born[Keys(od)[j]]
    /\ Length(od) = Cardinality({k \in DictKeys : Get(od, k)[2]})
    /\ last.op = "Range" =>
           /\ Len(last.visited) =
                 IF last.stopAt < Length(od) THEN last.stopAt ELSE Length(od)
           /\ \A i \in 1..Len(last.visited) :
                  last.visited[i] = <<Keys(od)[i], Get(od, Keys(od)[i])[1]>>
    /\ (last.op = "Delete" /\ Get(last.before, last.key)[2]) =>
           /\ ~Get(od, last.key)[2]
           /\ Keys(od) = SelectSeq(Keys(last.before), LAMBDA k : k # last.key)
           /\ \A k \in DictKeys \ {last.key} : Get(od, k) = Get(last.before, k)
    /\ (last.op = "Delete" /\ ~Get(last.before, last.key)[2]) => od = last.before

\* the middle one of three keys, inserted in the order b, "", a, is deleted
C9_Witness ==
    /\ last.op = "Delete"
    /\ Keys(last.before) = << <<"b">>, <<>>, <<"a">> >>
    /\ last.key = <<>>
    /\ Keys(od) = << <<"b">>, <<"a">> >>

\* a Range over three entries whose callback returns false on its second call
C9_WitnessRangeBreak ==
    /\ last.op = "Range" /\ last.stopAt = 2 /\ Length(od) = 3
    /\ Len(last.visited) = 2

-----------------------------------------------------------------------------
(* The KVLM format as section 4.2 of the specification words it, used only  *)
(* to state the claims: the fields of a buffer read from an offset.         *)

RECURSIVE RefValueEnd(_, _)
\* the offset of the first newline at or after i that is not immediately
\* followed by a space, or the length of b when there is none
RefValueEnd(b, i) ==
    IF i >= Len(b) THEN Len(b)
    ELSE IF At(b, i) = NewLine /\ ~(i + 1 < Len(b) /\ At(b, i + 1) = Space) THEN i
    ELSE RefValueEnd(b, i + 1)

RECURSIVE RefUnfold(_)
\* a value with its continuation lines: every newline-space becomes a newline
RefUnfold(v) ==
    IF Len(v) < 2 THEN v
    ELSE IF v[1] = NewLine /\ v[2] = Space
         THEN <<NewLine>> \o RefUnfold(SubSeq(v, 3, Len(v)))
         ELSE <<v[1]>> \o RefUnfold(Tail(v))

RECURSIVE RefFold(_)
\* a value written with continuation lines: every newline becomes newline-space
RefFold(v) ==
    IF v = <<>> THEN <<>>
    ELSE IF v[1] = NewLine THEN <<NewLine, Space>> \o RefFold(Tail(v))
    ELSE <<v[1]>> \o RefFold(Tail(v))

\* whether a key-value line starts at offset s of b: a space comes before the
\* next newline
RefIsField(b, s) ==
    /\ s < Len(b)
    /\ LET sp == IndexByte(SliceFrom(b, s), Space)
           nl == IndexByte(SliceFrom(b, s), NewLine)
       IN  sp >= 0 /\ (nl < 0 \/ sp < nl)

RECURSIVE RefFields(_, _)
\* the <<key, value>> pairs of the key-value lines of b from offset s on
RefFields(b, s) ==
    IF ~RefIsField(b, s) THEN <<>>
    ELSE LET sp == s + IndexByte(SliceFrom(b, s), Space)
             e  == RefValueEnd(b, sp + 1)
         IN  << <<Slice(b, s, sp), RefUnfold(Slice(b, sp + 1, e))>> >>
                 \o RefFields(b, e + 1)

RECURSIVE RefHeaderEnd(_, _)
\* the offset at which the block of key-value lines of b from s on ends
RefHeaderEnd(b, s) ==
    IF ~RefIsField(b, s) THEN s
    ELSE RefHeaderEnd(b, RefValueEnd(b, s + IndexByte(SliceFrom(b, s), Space) + 1) + 1)

\* b from s on is key-value lines with non-empty keys, followed by nothing or
\* by an empty line and a message
RefWellFormed(b, s) ==
    /\ \A i \in 1..Len(RefFields(b, s)) : RefFields(b, s)[i][1] # <<>>
    /\ RefHeaderEnd(b, s) >= Len(b) \/ At(b, RefHeaderEnd(b, s)) = NewLine

\* the values of key k among the fields f, in order
RefValuesOf(f, k) ==
    LET hits == SelectSeq(f, LAMBDA kv : kv[1] = k)
    IN  [i \in 1..Len(hits) |-> hits[i][2]]

RECURSIVE RefKeyOrder(_, _)
\* the keys of the fields f in the order of their first occurrence
RefKeyOrder(f, seen) ==
    IF f = <<>> THEN <<>>
    ELSE IF f[1][1] \in seen THEN RefKeyOrder(Tail(f), seen)
    ELSE <<f[1][1]>> \o RefKeyOrder(Tail(f), seen \cup {f[1][1]})

RECURSIVE RefSerializeValues(_, _)
\* one "key value" line per value, multi-line values folded
RefSerializeValues(k, vs) ==
    IF vs = <<>> THEN <<>>
    ELSE k \o <<Space>> \o RefFold(Head(vs)) \o <<NewLine>>
             \o RefSerializeValues(k, Tail(vs))

RECURSIVE RefSerializeKeys(_, _)
\* the lines of the keys ks of m, the message key skipped
RefSerializeKeys(m, ks) ==
    IF ks = <<>> THEN <<>>
    ELSE (IF Head(ks) = <<>> THEN <<>>
          ELSE IF m.dict[Head(ks)].t = "bytes"
               THEN RefSerializeValues(Head(ks), <<m.dict[Head(ks)].v>>)
               ELSE RefSerializeValues(Head(ks), m.dict[Head(ks)].v))
             \o RefSerializeKeys(m, Tail(ks))

\* the serialization the specification describes
RefSerialize(m) ==
    RefSerializeKeys(m, m.keys)
        \o (IF <<>> \in DOMAIN m.dict
            THEN <<NewLine>> \o m.dict[<<>>].v \o <<NewLine>> ELSE <<>>)

\* every value of m is a byte string or a list of byte strings, the message a
\* byte string
RefSupported(m) ==
    /\ m # NilDict
    /\ \A k \in DOMAIN m.dict : m.dict[k].t \in {"bytes", "list"}
    /\ <<>> \in DOMAIN m.dict => m.dict[<<>>].t = "bytes"

-----------------------------------------------------------------------------
(* Claims about the KVLM codec *)

\* C1: KVLM round trip: for every OrderedDict m whose values are byte strings
\* or lists of byte strings, KvlmParse(KvlmSerialize(m), 0, nil) returns, and
\* has exactly m's keys, in m's order, with m's values, the message included;
\* a map without a message gets no empty key back.
C1_RoundTrip ==
    (ser.called /\ RefSupported(kvlm)) =>
        /\ pc # "panic"
        /\ pc = "done" => (Keys(dict) = Keys(kvlm) /\ dict.dict = kvlm.dict)

\* C2: for every input, parsed from offset 0, of zero or more key-value lines
\* followed by an empty line, the block ends at that first empty line and all
\* bytes after it are stored under the empty key, wherever in the buffer the
\* empty line is.
C2_MessageRule ==
    (/\ pc = "done" /\ start0 = 0
     /\ RefWellFormed(raw, start0)
     /\ RefHeaderEnd(raw, start0) < Len(raw)) =>
        Get(dict, <<>>) =
            <<BytesVal(SliceFrom(raw, RefHeaderEnd(raw, start0) + 1)), TRUE>>

\* C3: for every key-value line at any offset the value runs from after the
\* key's space to the first newline not followed by a space, continuation
\* lines are appended to that key's value with one leading space removed, and
\* no continuation line is parsed as a key of its own.
C3_ContinuationRule ==
    (pc = "done" /\ RefWellFormed(raw, start0)) => log = RefFields(raw, start0)

\* C4: when a key occurs N >= 2 times in the input the parsed map holds it
\* once, at the position of its first occurrence, with the list of the N
\* values in input order; a key occurring once holds a single byte string;
\* no earlier value is overwritten.
C4_DuplicateKeys ==
    LET f == RefFields(raw, start0)
    IN  (/\ pc = "done"
         /\ RefWellFormed(raw, start0)
         /\ \E i, j \in 1..Len(f) : i # j /\ f[i][1] = f[j][1]) =>
            /\ SelectSeq(Keys(dict), LAMBDA k : k # <<>>) = RefKeyOrder(f, {})
            /\ \A i \in 1..Len(f) :
                   LET vs == RefValuesOf(f, f[i][1])
                   IN  Get(dict, f[i][1]) =
                           <<IF Len(vs) = 1 THEN BytesVal(vs[1]) ELSE ListVal(vs), TRUE>>

\* C5: KvlmSerialize emits the keys in insertion order, skips the empty key
\* among the fields, emits one "key value" line per value of a list in list
\* order, puts newline-space before each internal line of a multi-line value,
\* and ends with a blank line, the message and one newline when there is a
\* message; an empty map gives zero bytes.
C5_SerializeShape ==
    (ser.called /\ RefSupported(kvlm)) =>
        (ser.err = <<>> /\ ser.bytes = RefSerialize(kvlm))

\* C6: serializing a nil map returns an error; serializing a map in which a
\* key holds a value that is neither a byte string nor a list of byte strings
\* returns an error naming that key (the message, for the empty key); in both
\* cases no bytes are returned.
C6_SerializeErrors ==
    ser.called =>
        /\ kvlm = NilDict => (ser.err # <<>> /\ ser.bytes = <<>>)
        /\ kvlm # NilDict =>
             \A k \in DOMAIN kvlm.dict :
                 kvlm.dict[k].t \notin {"bytes", "list"} =>
                     /\ ser.bytes = <<>>
                     /\ \E i \in 1..Len(ser.err) :
                            ser.err[i] = IF k = <<>> THEN <<"invalid message type">>
                                         ELSE <<"unsupported type for key", k>>

\* a map whose first key has written bytes when the second key's int is met
C6_Witness ==
    /\ ser.called /\ kvlm # NilDict
    /\ Keys(kvlm) = << <<"a">>, <<"b">> >>
    /\ kvlm.dict[<<"a">>] = BytesVal(<<"a">>)
    /\ kvlm.dict[<<"b">>] = IntVal(123)
    /\ pc = "failed"

\* the nil map has been serialized
C6_WitnessNil == ser.called /\ kvlm = NilDict /\ pc = "failed"

-----------------------------------------------------------------------------
(* Claims about the object store *)

\* the frame the specification describes for an object whose payload is data
RefFrame(obj, data) ==
    (CASE obj.format = BlobType -> <<"b", "l", "o", "b">>
       [] obj.format = CommitType -> <<"c", "o", "m", "m", "i", "t">>)
        \o <<Space>> \o Itoa(Len(data)) \o <<NUL>> \o data

\* C10: WriteObject returns the hash of "<type-name> <payload-length>\0"
\* followed by the serialized payload whether or not persist is set, so the
\* same object gets the same hash with persist true and false; with persist
\* false files and directories are left unchanged; with persist true the
\* content is stored at objects/<first 2 hash characters>/<the rest>, the
\* directory created if needed, and nothing else changes.
C10_WriteObjectFrame ==
    /\ \A i \in 1..Len(wr) :
         LET c == wr[i]
             s == Serialize(c.obj)
             dir == <<GitDir, ObjectDir, SubSeq(c.sha, 1, 2)>>
             path == dir \o <<SubSeq(c.sha, 3, Len(c.sha))>>
         IN  s.err = <<>> =>
               /\ c.err = Nil
               /\ c.sha = calculateSHA(RefFrame(c.obj, s.bytes))
               /\ ~c.changeRepo => c.after = c.before
               /\ c.changeRepo =>
                    /\ dir \in c.after.dirs
                    /\ c.after.dirs =
                           c.before.dirs \cup {<<GitDir>>, <<GitDir, ObjectDir>>, dir}
                    /\ DOMAIN c.after.files = DOMAIN c.before.files \cup {path}
                    /\ c.after.files[path] = ZlibCompress(RefFrame(c.obj, s.bytes))
                    /\ \A q \in DOMAIN c.before.files :
                           q # path => c.after.files[q] = c.before.files[q]
    /\ \A i, j \in 1..Len(wr) :
         (wr[i].obj = wr[j].obj /\ wr[i].err = Nil /\ wr[j].err = Nil) =>
             wr[i].sha = wr[j].sha

\* one object hashed without persisting, then persisted into a directory that
\* did not exist
C10_Witness ==
    /\ Len(wr) >= 2
    /\ wr[1].obj = wr[2].obj /\ ~wr[1].changeRepo /\ wr[2].changeRepo
    /\ wr[1].err = Nil /\ wr[2].err = Nil
    /\ wr[1].after = wr[1].before
    /\ <<GitDir, ObjectDir>> \notin wr[2].before.dirs
    /\ wr[2].after.files # <<>>

\* a ten-byte blob persisted: a two-digit length in the frame
C10_WitnessLongBlob ==
    \E i \in 1..Len(wr) :
        /\ wr[i].obj.format = BlobType /\ Len(wr[i].obj.data) = 10
        /\ wr[i].changeRepo /\ wr[i].err = Nil

-----------------------------------------------------------------------------
(* Claims about reading objects *)

\* where the object with this hash is stored
RefObjectPath(sha) ==
    <<GitDir, ObjectDir, SubSeq(sha, 1, 2), SubSeq(sha, 3, Len(sha))>>

\* the read returned, with or without an error
RefReturned == rd.called /\ rd.out # Panicked /\ rd.out # Looping

\* C11: WriteObject(blob(p), persist=true) stores a file whose decompressed
\* content is "blob <len(p)>\0" followed by p, and a ReadObject of the returned
\* hash after it returns a Blob whose Serialize() is p, for every payload p,
\* the empty one and those with NUL bytes included.
C11_BlobRoundTrip ==
    \A i \in 1..Len(wr) :
        (wr[i].obj.format = BlobType /\ wr[i].changeRepo) =>
            /\ wr[i].err = Nil
            /\ RefObjectPath(wr[i].sha) \in DOMAIN wr[i].after.files
            /\ ZlibDecompress(wr[i].after.files[RefObjectPath(wr[i].sha)])
                   = [ok |-> TRUE, content |-> RefFrame(wr[i].obj, wr[i].obj.data)]
            /\ (rd.called /\ rd.sha = wr[i].sha /\ rd.at >= i) =>
                   /\ RefReturned
                   /\ rd.out.err = <<>>
                   /\ Format(rd.out.obj) = BlobType
                   /\ Serialize(rd.out.obj)
                          = [called |-> TRUE, bytes |-> wr[i].obj.data, err |-> <<>>]

\* a payload with a NUL byte written into a new objects directory and read back
C11_Witness ==
    /\ RefReturned
    /\ \E i \in 1..Len(wr) :
          /\ wr[i].obj.format = BlobType /\ wr[i].changeRepo
          /\ IndexByte(wr[i].obj.data, NUL) >= 0
          /\ rd.sha = wr[i].sha /\ rd.at >= i
          /\ rd.out.err = <<>>
          /\ IndexByte(Serialize(rd.out.obj).bytes, NUL) >= 0

\* the empty payload read back
C11_WitnessEmpty ==
    /\ RefReturned
    /\ \E i \in 1..Len(wr) :
          /\ wr[i].obj = Blob(<<>>) /\ wr[i].changeRepo
          /\ rd.sha = wr[i].sha /\ rd.at >= i
          /\ rd.out.err = <<>>

\* the content of the one file of SpecRead, once decompressed
RefStored == ZlibDecompress(fs.files[RefObjectPath(StoredSha)])

RefHeader(content) == SubSeq(content, 1, IndexByte(content, NUL))
RefTypeName(content) ==
    SubSeq(RefHeader(content), 1, IndexByte(RefHeader(content), Space))
RefLength(content) ==
    SubSeq(RefHeader(content), IndexByte(RefHeader(content), Space) + 2,
           Len(RefHeader(content)))
RefPayload(content) ==
    SubSeq(content, IndexByte(content, NUL) + 2, Len(content))

RefTypeNames == {<<"b", "l", "o", "b">>, <<"c", "o", "m", "m", "i", "t">>,
                 <<"t", "r", "e", "e">>, <<"t", "a", "g">>}

RefHeaderWellFormed(content) ==
    /\ IndexByte(content, NUL) >= 0
    /\ IndexByte(RefHeader(content), Space) >= 0
    /\ ParseInt(RefLength(content)).ok
    /\ ParseInt(RefLength(content)).n = Len(RefPayload(content))

\* C12: for a stored object with a well-formed header whose type name is blob,
\* commit, tree or tag, ReadObject hands the payload to that variant's
\* Deserialize and what it returns has that type as its Format(); an
\* unknown-type error is given for other type names only.
C12_Dispatch ==
    (RefReturned /\ rd.sha = StoredSha /\ RefStored.ok
        /\ RefHeaderWellFormed(RefStored.content)
        /\ RefTypeName(RefStored.content) \in RefTypeNames) =>
            /\ rd.out.err # <<>> => rd.out.err[1] = "failed to deserialize object"
            /\ rd.out.err = <<>> =>
                   String(Format(rd.out.obj)) = RefTypeName(RefStored.content)

RefMalformedObject(content) ==
    \/ IndexByte(content, NUL) < 0
    \/ IndexByte(RefHeader(content), Space) < 0
    \/ ~ParseInt(RefLength(content)).ok
    \/ RefTypeName(content) \notin RefTypeNames
    \/ ParseInt(RefLength(content)).n # Len(RefPayload(content))

\* C13: when the decompressed content has no NUL byte, a header without a
\* space or with a length that is no integer, a type name that is not
\* recognized, or a payload whose length differs from the declared one,
\* ReadObject returns an error and a nil object; it never returns an object
\* together with an error.
C13_ReadValidation ==
    /\ (rd.called /\ rd.sha = StoredSha /\ RefStored.ok
          /\ RefMalformedObject(RefStored.content)) =>
              /\ RefReturned
              /\ rd.out.err # <<>>
              /\ rd.out.obj = NilObject
    /\ (RefReturned /\ rd.out.err # <<>>) => rd.out.obj = NilObject

\* a blob header whose declared length is not the payload's
C13_Witness ==
    /\ RefReturned /\ rd.sha = StoredSha /\ RefStored.ok
    /\ RefTypeName(RefStored.content) = <<"b", "l", "o", "b">>
    /\ rd.out = [obj |-> NilObject,
                 err |-> <<"failed to parse object", "object size mismatch">>]

\* the other cases: no NUL, no space, a length that is no integer, another type
C13_WitnessNoNul ==
    RefReturned /\ rd.out.err = <<"failed to parse object", "invalid object format">>
C13_WitnessNoSpace ==
    RefReturned /\ rd.out.err = <<"failed to parse object", "invalid object header">>
C13_WitnessLength ==
    RefReturned /\ rd.out.err = <<"failed to parse object", "invalid object size">>
C13_WitnessType ==
    /\ RefReturned
    /\ rd.out.err = <<"failed to parse object", "invalid object type", <<"x">>>>

-----------------------------------------------------------------------------
(* Claims about commits and signatures *)

\* the map has the key, whatever its value
RefHas(m, key) == Get(m, key)[2]

RefLacksMandatory(m) ==
    ~RefHas(m, TreeKey) \/ ~RefHas(m, AuthorKey)
        \/ ~RefHas(m, CommitterKey) \/ ~RefHas(m, <<>>)

\* the signature form 'name <email> timestamp timezone'
RefSigTokens(s) == Split(s, Space)
RefNameEmail(s) ==
    Join(SubSeq(RefSigTokens(s), 1, Len(RefSigTokens(s)) - 2), <<Space>>)
RefTimestamp(s) == RefSigTokens(s)[Len(RefSigTokens(s)) - 1]
RefTimezone(s)  == RefSigTokens(s)[Len(RefSigTokens(s))]
RefOpening(s)   == IndexByte(RefNameEmail(s), "<")

RefWellFormedSig(s) ==
    /\ Len(RefSigTokens(s)) >= 4
    /\ RefOpening(s) >= 0
    /\ At(RefNameEmail(s), Len(RefNameEmail(s)) - 1) = ">"
    /\ RefOpening(s) < Len(RefNameEmail(s)) - 1
    /\ ParseInt(RefTimestamp(s)).ok

RefSignature(s) ==
    [Name  |-> TrimSpace(Slice(RefNameEmail(s), 0, RefOpening(s))),
     Email |-> Slice(RefNameEmail(s), RefOpening(s) + 1, Len(RefNameEmail(s)) - 1),
     When  |-> TimeUnix(ParseInt(RefTimestamp(s)).n)]

RefMalformedSig(s) ==
    \/ Len(RefSigTokens(s)) < 4
    \/ ~ParseInt(RefTimestamp(s)).ok
    \/ RefOpening(s) < 0
    \/ IndexByte(RefNameEmail(s), ">") < 0

RefMapWellFormed(m) ==
    /\ ~RefLacksMandatory(m)
    /\ Get(m, AuthorKey)[1].t = "bytes" /\ RefWellFormedSig(Get(m, AuthorKey)[1].v)
    /\ Get(m, CommitterKey)[1].t = "bytes"
    /\ RefWellFormedSig(Get(m, CommitterKey)[1].v)

RefParents(m) ==
    IF ~RefHas(m, ParentKey) THEN <<>>
    ELSE IF Get(m, ParentKey)[1].t = "list" THEN Get(m, ParentKey)[1].v
    ELSE <<Get(m, ParentKey)[1].v>>

\* C14: CreateCommitFromKVLM on a map lacking tree, author, committer or the
\* message returns an error and a nil commit; on a map that has all four with
\* well-formed signatures it returns the commit made of those fields, with
\* Parents empty, one element or the list in order.
C14_MandatoryFields ==
    res # NoResult =>
        /\ RefLacksMandatory(arg.kvlm) =>
              /\ res # Panicked
              /\ res.err # <<>>
              /\ res.commit = NilCommit
        /\ RefMapWellFormed(arg.kvlm) =>
              /\ res # Panicked
              /\ res.err = <<>>
              /\ res.commit # NilCommit
              /\ BytesVal(res.commit.Tree) = Get(arg.kvlm, TreeKey)[1]
              /\ res.commit.Author = RefSignature(Get(arg.kvlm, AuthorKey)[1].v)
              /\ res.commit.Committer
                     = RefSignature(Get(arg.kvlm, CommitterKey)[1].v)
              /\ BytesVal(res.commit.Message) = Get(arg.kvlm, <<>>)[1]
              /\ res.commit.Parents = RefParents(arg.kvlm)

\* C15: decoding a map that has no author key fails with the missing-key error
\* for "author", whatever else the map has.
C15_MissingAuthorNamed ==
    res # NoResult /\ ~RefHas(arg.kvlm, AuthorKey) =>
        /\ res # Panicked
        /\ res.commit = NilCommit
        /\ res.err = CommitKeyMissing(AuthorKey)

\* C16: for a signature 'name <email> timestamp timezone' ParseSignature returns
\* the trimmed text before '<' as name, the text between '<' and the closing
\* '>' as email, and the second-to-last token as seconds since the epoch; the
\* last token has no part in it.
C16_SignatureParsing ==
    res # NoResult /\ RefWellFormedSig(arg.sign) =>
        /\ res.err = <<>>
        /\ res.sign = RefSignature(arg.sign)

\* a name of two words, and a timezone that is an integer other than the
\* timestamp
C16_Witness ==
    /\ res # NoResult
    /\ RefWellFormedSig(arg.sign)
    /\ res.err = <<>>
    /\ IndexByte(res.sign.Name, Space) >= 0
    /\ ParseInt(RefTimezone(arg.sign)).ok
    /\ TimeUnix(ParseInt(RefTimezone(arg.sign)).n) # res.sign.When

\* C17: ParseSignature returns an error and the zero signature when the input
\* has fewer than 4 tokens, a second-to-last token that is no integer, or a
\* 'name <email>' part without '<' or without '>'.
C17_MalformedRejected ==
    res # NoResult /\ RefMalformedSig(arg.sign) =>
        /\ res.err # <<>>
        /\ res.sign = ZeroSignature

-----------------------------------------------------------------------------
(* Claims about trees *)

RefBad == [bad |-> TRUE, entries |-> <<>>]

RECURSIVE RefReadEntries(_, _)
\* the entries of a buffer read back to back from offset s, in the spec's
\* words: the mode run before the first space, the path up to the next NUL,
\* 20 hash bytes
RefReadEntries(b, s) ==
    IF s >= Len(b) THEN [bad |-> FALSE, entries |-> <<>>]
    ELSE LET spaces == {i \in s..(Len(b) - 1) : At(b, i) = Space}
             sp == CHOOSE i \in spaces : \A j \in spaces : i <= j
             nuls == {i \in (sp + 1)..(Len(b) - 1) : At(b, i) = NUL}
             nul == CHOOSE i \in nuls : \A j \in nuls : i <= j
             rest == RefReadEntries(b, nul + 1 + 20)
         IN  IF spaces = {} THEN RefBad
             ELSE IF sp - s \notin {5, 6} THEN RefBad
             ELSE IF nuls = {} THEN RefBad
             ELSE IF Len(b) - (nul + 1) < 20 THEN RefBad
             ELSE IF rest.bad THEN RefBad
             ELSE [bad |-> FALSE,
                   entries |-> <<[mode |-> Slice(b, s, sp),
                                  path |-> Slice(b, sp + 1, nul),
                                  hash |-> Slice(b, nul + 1, nul + 21)]>>
                                   \o rest.entries]

\* a 5-byte mode padded on the left with one space
RefPadded(mode) == IF Len(mode) = 5 THEN <<Space>> \o mode ELSE mode

\* C18: parseTree reads entries back to back to the end of the buffer, each a
\* mode of 5 or 6 bytes before the first space, a path up to the next NUL and
\* 20 hash bytes kept as 40 hex characters; an entry without a space, with a
\* mode run of another length, without NUL or with fewer than 20 bytes after
\* it gives an error and no entries; on success the entries are in input order.
C18_ParseTree ==
    (res # NoResult /\ "raw" \in DOMAIN arg) =>
        LET r == RefReadEntries(arg.raw, 0)
            out == res.parsed
        IN  IF r.bad THEN out.err # <<>> /\ out.leaves = <<>>
            ELSE /\ out.err = <<>>
                 /\ Len(out.leaves) = Len(r.entries)
                 /\ \A i \in 1..Len(r.entries) :
                       /\ out.leaves[i].mode = RefPadded(r.entries[i].mode)
                       /\ out.leaves[i].path = r.entries[i].path
                       /\ Len(out.leaves[i].sha) = 40
                       /\ HexDecodeString(out.leaves[i].sha)
                              = [bytes |-> r.entries[i].hash, ok |-> TRUE]

\* two entries read in order, the hash of one holding a space and a NUL
C18_Witness ==
    /\ res # NoResult /\ "raw" \in DOMAIN arg
    /\ res.parsed.err = <<>>
    /\ Len(res.parsed.leaves) = 2
    /\ res.parsed.leaves[1].path # res.parsed.leaves[2].path
    /\ res.parsed.leaves[1].sha = HexEncodeToString(HashB)
    /\ res.parsed.leaves[2].sha = HexEncodeToString(HashA)

\* a good entry followed by one with too few hash bytes: nothing is returned
C18_WitnessError ==
    /\ res # NoResult /\ "raw" \in DOMAIN arg
    /\ res.parsed.err = InvalidTreeEntry("missing sha")
    /\ Len(arg.raw) > 29
    /\ ~RefReadEntries(SubSeq(arg.raw, 1, 29), 0).bad
    /\ res.parsed.leaves = <<>>

\* file-mode entries (regular files and symbolic links, the entries Type()
\* calls blobs) and tree-mode entries
RefFileMode(leaf) ==
    Len(leaf.mode) >= 2 /\ SubSeq(leaf.mode, 1, 2) \in {<<"1", "0">>, <<"1", "2">>}
RefTreeMode(leaf) ==
    Len(leaf.mode) >= 2 /\ SubSeq(leaf.mode, 1, 2) = <<"0", "4">>

RefSortKey(leaf) == IF RefFileMode(leaf) THEN leaf.path ELSE leaf.path \o <<"/">>

RECURSIVE RefEmit(_)
RefEmit(es) ==
    IF es = <<>> THEN <<>>
    ELSE Head(es).mode \o <<Space>> \o Head(es).path \o <<NUL>>
             \o HexDecodeString(Head(es).sha).bytes \o RefEmit(Tail(es))

\* C19: treeSerialize emits the entries in ascending order of the key, path
\* for file-mode entries and path + "/" for tree-mode entries, so a file comes
\* immediately before a directory of the same name; each entry is mode, space,
\* path, NUL and the 20 raw hash bytes, with nothing between entries.
C19_TreeSortLaw ==
    (res # NoResult /\ "entries" \in DOMAIN arg /\ res.serialized # Panicked
        /\ res.serialized.err = <<>>) =>
        LET es == res.serialized.entries
        IN  /\ \A i \in 1..(Len(es) - 1) :
                  ~StringLess(RefSortKey(es[i + 1]), RefSortKey(es[i]))
            /\ \A i, j \in 1..Len(es) :
                  (RefFileMode(es[i]) /\ RefTreeMode(es[j])
                      /\ es[i].path = es[j].path) =>
                      /\ i < j
                      /\ \A k \in (i + 1)..(j - 1) : es[k].path = es[i].path
            /\ res.serialized.bytes = RefEmit(es)

\* the type of a mode by its two-character prefix
RefTypeOf(mode) ==
    LET canonical == IF Len(mode) = 5 THEN <<"0">> \o mode ELSE mode
        prefix == SubSeq(canonical, 1, 2)
    IN  IF prefix = <<"1", "0">> THEN BlobType
        ELSE IF prefix = <<"0", "4">> THEN TreeType
        ELSE IF prefix = <<"1", "6">> THEN CommitType
        ELSE IF prefix = <<"1", "2">> THEN BlobType
        ELSE -1

\* C20: for every parsed entry Type() follows the mode's type prefix, Blob for
\* "10", Tree for "04", Commit for "16", Blob for "12", an invalid-type error
\* otherwise; an entry stored with a 5-digit mode is brought to six characters
\* and classified as its 6-digit equivalent (40000 as 040000, Tree).
C20_TypeClassification ==
    (res # NoResult /\ "raw" \in DOMAIN arg /\ res.types # <<>>) =>
        \A i \in 1..Len(res.types) :
            LET stored == RefReadEntries(arg.raw, 0).entries[i].mode
            IN  /\ Len(res.parsed.leaves[i].mode) = 6
                /\ res.types[i] # Panicked
                /\ IF RefTypeOf(stored) = -1 THEN res.types[i].err # <<>>
                   ELSE res.types[i] = [ot |-> RefTypeOf(stored), err |-> <<>>]

-----------------------------------------------------------------------------
(* Claims about KvlmParse as a whole *)

\* C26: KvlmParse terminates on every buffer and start offset: every turn of
\* the scan for the end of a value moves end forward, and every recursive call
\* starts at a greater offset.
C26_ParseAdvances ==
    [][/\ (pc = "scan" /\ pc' = "scan") => end' > end
       /\ (pc = "store" /\ pc' = "entry") => start' > start]_vars

\* the offset is the start of a line of the buffer
RefLineStart(b, s) == s = 0 \/ (s <= Len(b) /\ At(b, s - 1) = NewLine)

\* C27: for every buffer and every offset s at the start of a line,
\* KvlmParse(raw, s, nil) returns what KvlmParse(raw[s:], 0, nil) returns; the
\* bytes before s have no influence.
C27_PositionIndependent ==
    (pc = "done" /\ kvlm = NilDict /\ RefLineStart(raw, start0)) =>
        dict \in KvlmParseOutcomes(SliceFrom(raw, start0), 0, New)

\* C29: CommitObject.Deserialize returns a commit or an error for every byte
\* string; it does not crash when tree, author, committer or the message holds
\* a list, because the key occurs twice or because Deserialize is called a
\* second time on the same object.
C29_DeserializeReturns ==
    res # NoResult => res.out \notin {Panicked, Looping}

-----------------------------------------------------------------------------
(* Claims about the tree codec as a whole *)

\* the key an entry of a stored tree is ordered by
RefStoredKey(entry) ==
    IF RefTypeOf(entry.mode) = TreeType THEN entry.path \o <<"/">> ELSE entry.path

\* the entries of the buffer are in ascending order of their keys
RefCanonical(b) ==
    LET es == RefReadEntries(b, 0).entries
    IN  \A i \in 1..(Len(es) - 1) :
            StringLess(RefStoredKey(es[i]), RefStoredKey(es[i + 1]))

\* C28: for every buffer parseTree accepts, entries in canonical order and
\* modes of 5 or 6 digits, treeSerialize(parseTree(raw)) is raw byte for byte,
\* and parsing the serialized bytes succeeds with the same entries.
C28_TreeRoundTrip ==
    (res # NoResult /\ "raw" \in DOMAIN arg /\ res.back # NoResult
        /\ RefCanonical(arg.raw)) =>
            /\ res.back.serialized # Panicked
            /\ res.back.serialized.err = <<>>
            /\ res.back.serialized.bytes = arg.raw
            /\ res.back.reparsed = res.parsed

-----------------------------------------------------------------------------
(* References as section 4.6 of the specification words them, used only to  *)
(* state the claims.                                                        *)

\* the path a reference name stands for, under the git directory
RefPathOf(name) == <<GitDir>> \o SelectSeq(Split(name, "/"), LAMBDA c : c # <<>>)

RefIsFile(f, name) == RefPathOf(name) \in DOMAIN f.files

\* the content with one trailing newline removed, if there is one
RefStripped(c) ==
    IF c # <<>> /\ c[Len(c)] = NewLine THEN SubSeq(c, 1, Len(c) - 1) ELSE c

RefIsSymbolic(c) == Len(c) >= 5 /\ SubSeq(c, 1, 5) = <<"r", "e", "f", ":", " ">>

RefIsHash(h) == h # <<>> /\ \A i \in 1..Len(h) : \E j \in 1..16 : HexChars[j] = h[i]

RECURSIVE RefChain(_, _, _)
\* the hash at the end of the chain of reference files that starts at name:
\* every file of the chain exists and ends with a newline, the last one holds
\* a hash, and the chain has at most fuel indirections
RefChain(f, name, fuel) ==
    LET c == f.files[RefPathOf(name)]
        t == RefStripped(c)
    IN  IF ~RefIsFile(f, name) THEN [ok |-> FALSE, hash |-> <<>>]
        ELSE IF c = <<>> \/ c[Len(c)] # NewLine THEN [ok |-> FALSE, hash |-> <<>>]
        ELSE IF RefIsSymbolic(t)
             THEN IF fuel = 0 THEN [ok |-> FALSE, hash |-> <<>>]
                  ELSE RefChain(f, SubSeq(t, 6, Len(t)), fuel - 1)
        ELSE [ok |-> RefIsHash(t), hash |-> t]

\* more indirections than a repository has files make a cycle
RefFuel(f) == Cardinality(DOMAIN f.files)

RECURSIVE RefLeaves(_)
\* the leaves of a nested map of references
RefLeaves(d) ==
    UNION {IF d.dict[k].t = "dict" THEN RefLeaves(d.dict[k].v) ELSE {d.dict[k].v} :
               k \in DOMAIN d.dict}

\* the names of the entries of a directory
RefEntries(f, dir) ==
    {p[Len(p)] : p \in {q \in f.dirs \cup DOMAIN f.files :
                           Len(q) = Len(dir) + 1 /\ SubSeq(q, 1, Len(dir)) = dir}}

RECURSIVE RefAscending(_)
RefAscending(names) ==
    IF names = {} THEN <<>>
    ELSE LET least == CHOOSE n \in names : \A m \in names \ {n} : StringLess(n, m)
         IN  <<least>> \o RefAscending(names \ {least})

\* the name of a path under the git directory
RefNameOf(path) == Join(Tail(path), <<"/">>)

RECURSIVE RefMirror(_, _)
RECURSIVE RefMirrorOver(_, _, _)
\* the nested map of a directory: a subdirectory maps to its own map, a file
\* to the hash it resolves to
RefMirrorOver(f, dir, names) ==
    IF names = <<>> THEN New
    ELSE LET name == names[Len(names)]
             rest == RefMirrorOver(f, dir, SubSeq(names, 1, Len(names) - 1))
             path == dir \o <<name>>
         IN  IF path \in f.dirs
             THEN Set(rest, name, [t |-> "dict", v |-> RefMirror(f, path)])
             ELSE Set(rest, name,
                      [t |-> "string", v |-> RefChain(f, RefNameOf(path), RefFuel(f)).hash])

RefMirror(f, dir) == RefMirrorOver(f, dir, RefAscending(RefEntries(f, dir)))

\* the files below a directory
RefFilesBelow(f, dir) ==
    {p \in DOMAIN f.files : Len(p) > Len(dir) /\ SubSeq(p, 1, Len(dir)) = dir}

-----------------------------------------------------------------------------
(* Claims about references and tags *)

\* C21: resolving a name whose path is not a file gives the empty string and
\* no error.
C21_MissingIsEmpty ==
    (res # NoResult /\ arg.op = "resolveRef" /\ ~RefIsFile(fs, arg.refFile)) =>
        res.out = [ref |-> <<>>, err |-> <<>>]

\* C22: resolveRef removes exactly one trailing newline when there is one and
\* nothing otherwise, and returns what is left of a file that holds no
\* symbolic reference after the removal.
C22_OneNewlineStripped ==
    (res # NoResult /\ arg.op = "resolveRef" /\ RefIsFile(fs, arg.refFile)
        /\ ~RefIsSymbolic(RefStripped(fs.files[RefPathOf(arg.refFile)]))) =>
            res.out = [ref |-> RefStripped(fs.files[RefPathOf(arg.refFile)]),
                       err |-> <<>>]

\* C23: a chain of reference files, each holding "ref: <next>" and a newline
\* and the last one a hash and a newline, resolves to that hash; and whatever
\* resolveRef returns, and every leaf ListRefs stores, does not start with
\* "ref: ".
C23_IndirectionFollowed ==
    /\ (res # NoResult /\ arg.op = "resolveRef"
           /\ RefChain(fs, arg.refFile, RefFuel(fs)).ok) =>
              res.out = [ref |-> RefChain(fs, arg.refFile, RefFuel(fs)).hash,
                         err |-> <<>>]
    /\ (res # NoResult /\ arg.op = "resolveRef" /\ res.out # Looping) =>
              ~RefIsSymbolic(res.out.ref)
    /\ (res # NoResult /\ arg.op = "ListRefs" /\ res.out # Looping
           /\ res.out.refs # NilDict) =>
              \A leaf \in RefLeaves(res.out.refs) : ~RefIsSymbolic(leaf)

\* a chain of two indirections was followed: HEAD names refs/tags/v, which
\* names refs/heads/main, which holds the hash
C23_Witness ==
    /\ res # NoResult /\ arg.op = "resolveRef" /\ arg.refFile = HeadName
    /\ \A i \in 1..3 : <<GitDir>> \o RepoRefPaths[i] \in DOMAIN fs.files
    /\ fs.files[<<GitDir>> \o RepoRefPaths[1]] = RepoRefContents[5]
    /\ fs.files[<<GitDir>> \o RepoRefPaths[3]] = RepoRefContents[4]
    /\ fs.files[<<GitDir>> \o RepoRefPaths[2]] = HashAB \o <<NewLine>>
    /\ res.out = [ref |-> HashAB, err |-> <<>>]

\* C24: ListRefs on a repository whose reference files all resolve returns,
\* without error, the nested map of the refs directory: the entry names in
\* ascending order, a map for a subdirectory, for a file the hash this file
\* resolves to.
C24_ListRefsMirrors ==
    (res # NoResult /\ arg.op = "ListRefs" /\ <<GitDir, DirRefs>> \in fs.dirs
        /\ \A p \in RefFilesBelow(fs, <<GitDir, DirRefs>>) :
               RefChain(fs, RefNameOf(p), RefFuel(fs)).ok) =>
            res.out = [refs |-> RefMirror(fs, <<GitDir, DirRefs>>), err |-> <<>>]

\* C30: after CreateTag returns without error, refs/tags/<name> holds a hash
\* and a newline; with createTagObject the object file of that hash exists,
\* without it the hash is the target and no file but the reference changed.
C30_NoDanglingTag ==
    (res # NoResult /\ arg.op = "CreateTag" /\ ~res.err) =>
        LET tagPath == <<GitDir, DirRefs, TagsDir, arg.name>>
            h == RefStripped(fs.files[tagPath])
        IN  /\ tagPath \in DOMAIN fs.files
            /\ fs.files[tagPath] = h \o <<NewLine>>
            /\ IF arg.createTagObject
               THEN /\ Len(h) > 2
                    /\ <<GitDir, ObjectDir, SubSeq(h, 1, 2), SubSeq(h, 3, Len(h))>>
                           \in DOMAIN fs.files
               ELSE /\ h = arg.ref
                    /\ DOMAIN fs.files \ {tagPath} = DOMAIN arg.before.files \ {tagPath}

-----------------------------------------------------------------------------
(* Claims about tags *)

\* the words of a tagger string
RefWords(s) == SelectSeq(Split(s, Space), LAMBDA w : w # <<>>)

RefIsInteger(w) ==
    LET ds == IF w # <<>> /\ w[1] \in {"+", "-"} THEN Tail(w) ELSE w
    IN  ds # <<>> /\ \A i \in 1..Len(ds) : ds[i] \in Digits

\* the time a tagger string gives: its second-to-last word as seconds
RefTaggerTime(s) ==
    LET ws == RefWords(s)
    IN  IF Len(ws) >= 2 /\ RefIsInteger(ws[Len(ws) - 1])
        THEN [unix |-> ParseInt(ws[Len(ws) - 1]).n]
        ELSE ZeroTime

RefField(m, key) == IF key \in DOMAIN m.dict THEN m.dict[key].v ELSE <<>>

RefSeconds(t) ==
    IF t = ZeroTime
    THEN <<"-", "6", "2", "1", "3", "5", "5", "9", "6", "8", "0", "0">>
    ELSE Itoa(t.unix)

\* C25: IsAnnotation holds exactly for Type "commit"; ToKvlm of an annotated
\* tag holds object, type, tag, tagger and the message in this order, the
\* tagger being "<Tagger> <unix seconds> +0000", and ToKvlm of another tag is
\* empty; FromKVLM of a map of byte strings copies object, tag, type, tagger
\* and the message as they are, an absent one staying empty, and takes the
\* time from the second-to-last word of the tagger, which stays zero when
\* there is no such word or no tagger.
C25_TagCodec ==
    /\ (res # NoResult /\ res.fn = "IsAnnotation") =>
          res.out = (arg.tag.Type = <<"c", "o", "m", "m", "i", "t">>)
    /\ (res # NoResult /\ res.fn = "ToKvlm") =>
          IF arg.tag.Type = <<"c", "o", "m", "m", "i", "t">>
          THEN /\ res.out.keys = <<ObjectKey, TypeKey, TagKey, TaggerKey, <<>>>>
               /\ res.out.dict[ObjectKey] = BytesVal(arg.tag.Object)
               /\ res.out.dict[TypeKey] = BytesVal(arg.tag.Type)
               /\ res.out.dict[TagKey] = BytesVal(arg.tag.Name)
               /\ res.out.dict[TaggerKey] =
                      BytesVal(arg.tag.Tagger \o <<Space>> \o RefSeconds(arg.tag.Timestamp)
                                   \o <<Space, "+", "0", "0", "0", "0">>)
               /\ res.out.dict[<<>>] = BytesVal(arg.tag.Message)
          ELSE res.out = New
    /\ (res # NoResult /\ res.fn = "FromKVLM"
           /\ \A k \in DOMAIN arg.kvlm.dict : arg.kvlm.dict[k].t = "bytes") =>
          res.out = [tag |-> [Name      |-> RefField(arg.kvlm, TagKey),
                              Object    |-> RefField(arg.kvlm, ObjectKey),
                              Type      |-> RefField(arg.kvlm, TypeKey),
                              Tagger    |-> RefField(arg.kvlm, TaggerKey),
                              Timestamp |-> RefTaggerTime(RefField(arg.kvlm, TaggerKey)),
                              Message   |-> RefField(arg.kvlm, <<>>)],
                     err |-> <<>>]

\* a map with all five fields was read, the tagger "j 7 +0000"
C25_Witness ==
    /\ res # NoResult /\ res.fn = "FromKVLM"
    /\ DOMAIN arg.kvlm.dict = {ObjectKey, TypeKey, TagKey, TaggerKey, <<>>}
    /\ arg.kvlm.dict[TaggerKey] =
           BytesVal(<<"j", Space, "7", Space, "+", "0", "0", "0", "0">>)
    /\ res.out # Panicked
    /\ res.out.tag.Timestamp = TimeUnix(7)
    /\ res.out.tag.Tagger = arg.kvlm.dict[TaggerKey].v

====
